---- MODULE Spec2Model ----
(***************************************************************************)
(* Milestar Cafe: the in-memory data store (MemStorage), the REST request  *)
(* router (registerRoutes) that guards it, and on the client the cart      *)
(* (CartProvider) and the order page that places the cart as an order.     *)
(*                                                                         *)
(* Conventions                                                             *)
(*   - A JavaScript Map is a sequence of entries [k |-> key, v |-> value]  *)
(*     in insertion order (Map iteration order).                           *)
(*   - A JavaScript object is a record; a key that is absent (undefined)   *)
(*     is absent from the record's DOMAIN.  {...a, ...b} is Spread(a, b).  *)
(*   - A value that may be undefined is a sequence of length 0 or 1.       *)
(*   - Array.prototype.filter is SelectSeq.                                *)
(*   - A JSON value received from a client carries its runtime type:       *)
(*     Num(n), Str(s), Arr(s).  Schema validation looks at the type and,   *)
(*     when it accepts, keeps the bare value.                              *)
(*   - Money is counted in hundredths of the currency unit (1.5 is 150).   *)
(***************************************************************************)
EXTENDS Integers, Sequences, FiniteSets, TLC

VARIABLES
    storage,      \* the MemStorage singleton: four maps and four id counters
    clock,        \* the wall clock as new Date() last read it
    placed,       \* history: order id -> the createOrder call that returned it:
                  \*   [by |-> the caller's id, details |-> the client's
                  \*    orderDetails, items |-> the items passed to createOrder,
                  \*    order |-> the order returned]
    adminPatched, \* history: ids of orders whose status an admin PATCH has set
    issued,       \* history: per entity type, the ids create calls returned, in order
    deletedMenu,  \* history: id of each menu item deleteMenuItem removed ->
                  \*   menuItemIdCounter at the removal
    pending,      \* the handlers waiting at an await for the event loop to
                  \*   resume them (used where a handler runs in its parts)
    cartItems,    \* CartProvider: the cartItems state of the committed render
    localStorage, \* what localStorage holds under CART_STORAGE_KEY: None
                  \*   (getItem gives null) or Some(text)
    mounted,      \* whether CartProvider and the order page are mounted
    updates,      \* the setCartItems calls React has queued for the next render
    effects,      \* the passive effects of the committed render not yet run
    sinceMount,   \* history: [saved |-> what localStorage held when the
                  \*   provider mounted, operated |-> whether a cart operation
                  \*   was called since]
    orderPage,    \* OrderPage: its states [orderId |-> None for null or
                  \*   Some(id), isConfirmationVisible |-> a boolean]
    orderMutation,  \* OrderPage: the state of orderMutation: [status |-> "idle",
                  \*   "pending", "success" or "error", sent |-> the cart the
                  \*   request was built from, data |-> the order a success gave]
    wire          \* the request or response of the order page in flight,
                  \*   at most one, as a sequence

server == <<storage, clock, placed, adminPatched, issued, deletedMenu, pending>>

client == <<cartItems, localStorage, mounted, updates, effects, sinceMount,
            orderPage, orderMutation, wire>>

vars == <<storage, clock, placed, adminPatched, issued, deletedMenu, pending,
          cartItems, localStorage, mounted, updates, effects, sinceMount,
          orderPage, orderMutation, wire>>

-----------------------------------------------------------------------------
(* Bounds of the model.                                                    *)

\* Users in the store, the seeded admin included.
MaxUsers == 2

\* Orders in the store.
MaxOrders == 2

\* Menu items created after the seed.
MaxMenuCreates == 2

\* Users in the store where createUser is called on its own.
MaxAccounts == 4

\* Handlers waiting at an await at one time.
MaxPending == 2

\* The largest quantity of a cart line.
MaxQuantity == 3

-----------------------------------------------------------------------------
(* JavaScript values.                                                      *)

None == <<>>

Some(x) == <<x>>

Num(n) == [t |-> "number", v |-> n]

Str(s) == [t |-> "string", v |-> s]

Arr(s) == [t |-> "array", v |-> s]

\* {...a, ...b}: the keys of both, b's value where both have the key.
Spread(a, b) ==
    [k \in DOMAIN a \cup DOMAIN b |-> IF k \in DOMAIN b THEN b[k] ELSE a[k]]

\* Map.prototype.has / get / set / delete on a sequence of entries.
MapIndex(m, key) == CHOOSE i \in 1..Len(m) : m[i].k = key

MapHas(m, key) == \E i \in 1..Len(m) : m[i].k = key

MapGet(m, key) == IF MapHas(m, key) THEN Some(m[MapIndex(m, key)].v) ELSE None

MapSet(m, key, value) ==
    IF MapHas(m, key)
    THEN [m EXCEPT ![MapIndex(m, key)] = [k |-> key, v |-> value]]
    ELSE Append(m, [k |-> key, v |-> value])

MapDelete(m, key) == SelectSeq(m, LAMBDA e : e.k # key)

\* Array.from(map.values())
MapValues(m) == [i \in 1..Len(m) |-> m[i].v]

\* The comparator with its operands exchanged: a before b when a is the older.
NewestFirst_OldestFirst(a, b) == a.createdAt - b.createdAt < 0

\* The comparator (a, b) => b.createdAt.getTime() - a.createdAt.getTime():
\* negative, so a is put before b, exactly when a is the newer one.
NewestFirst(a, b) == b.createdAt - a.createdAt < 0

\* Array.prototype.sort under that comparator, which is stable: elements the
\* comparator does not order keep their relative order.
RECURSIVE InsertSorted(_, _)
InsertSorted(sorted, x) ==
    IF sorted = <<>> THEN <<x>>
    ELSE IF NewestFirst(x, Head(sorted))
         THEN <<x>> \o sorted
         ELSE <<Head(sorted)>> \o InsertSorted(Tail(sorted), x)

RECURSIVE SortNewestFirst(_)
SortNewestFirst(s) ==
    IF s = <<>> THEN <<>>
    ELSE InsertSorted(SortNewestFirst(SubSeq(s, 1, Len(s) - 1)), s[Len(s)])

-----------------------------------------------------------------------------
(* Schema validation (zod objects made by createInsertSchema(...).pick).   *)
(* A schema maps each picked column to its JSON type and whether the       *)
(* insert requires it.  parse() throws a ZodError unless every key that is *)
(* present has the column's type and every required key is present; on     *)
(* success it returns the picked keys only (unknown keys are stripped).    *)

Column(type, required) == [type |-> type, required |-> required]

insertUserSchema ==
    [username |-> Column("string", TRUE),
     password |-> Column("string", TRUE),
     name     |-> Column("string", TRUE),
     isAdmin  |-> Column("boolean", FALSE)]

insertMenuItemSchema ==
    [name        |-> Column("string", TRUE),
     description |-> Column("string", TRUE),
     price       |-> Column("number", TRUE),
     imageUrl    |-> Column("string", TRUE),
     category    |-> Column("string", TRUE)]

insertOrderSchema ==
    [userId              |-> Column("number", TRUE),
     customerName        |-> Column("string", TRUE),
     customerPhone       |-> Column("string", TRUE),
     orderType           |-> Column("string", TRUE),
     specialInstructions |-> Column("string", FALSE),
     subtotal            |-> Column("number", TRUE),
     tax                 |-> Column("number", TRUE),
     total               |-> Column("number", TRUE)]

insertOrderItemSchema ==
    [orderId    |-> Column("number", TRUE),
     menuItemId |-> Column("number", TRUE),
     name       |-> Column("string", TRUE),
     price      |-> Column("number", TRUE),
     quantity   |-> Column("number", TRUE)]

\* schema.partial(): every key optional.
Partial(schema) == [k \in DOMAIN schema |-> Column(schema[k].type, FALSE)]

\* Whether schema.parse(obj) returns (TRUE) or throws a ZodError (FALSE).
SchemaAccepts(schema, obj) ==
    \A k \in DOMAIN schema :
        IF k \in DOMAIN obj THEN obj[k].t = schema[k].type ELSE ~schema[k].required

\* What schema.parse(obj) returns when it accepts.
SchemaParse(schema, obj) ==
    [k \in DOMAIN schema \cap DOMAIN obj |-> obj[k].v]

-----------------------------------------------------------------------------
(* MemStorage.  Every method takes the store s and returns the store after *)
(* the call and the method's return value: [store |-> ..., ret |-> ...].   *)

\* The seven menu items of seedMenuItems (name, price, category; the
\* description and image URL are shortened).
SeedMenuItems ==
    << [name |-> "Classic Cheeseburger", description |-> "d1", price |-> 39900,
        imageUrl |-> "u1", category |-> "food"],
       [name |-> "Veggie Pasta Salad", description |-> "d2", price |-> 34900,
        imageUrl |-> "u2", category |-> "food"],
       [name |-> "Crispy Chicken Sandwich", description |-> "d3", price |-> 36900,
        imageUrl |-> "u3", category |-> "food"],
       [name |-> "Berry Smoothie", description |-> "d4", price |-> 24900,
        imageUrl |-> "u4", category |-> "juice"],
       [name |-> "Fresh Orange Juice", description |-> "d5", price |-> 19900,
        imageUrl |-> "u5", category |-> "juice"],
       [name |-> "Cafe Latte", description |-> "d6", price |-> 17900,
        imageUrl |-> "u6", category |-> "beverage"],
       [name |-> "Hot Chocolate", description |-> "d7", price |-> 15900,
        imageUrl |-> "u7", category |-> "beverage"] >>

\* The fields the constructor sets before it creates the admin and the seed.
EmptyStorage ==
    [users |-> <<>>, menuItems |-> <<>>, orders |-> <<>>, orderItems |-> <<>>,
     userIdCounter |-> 1, menuItemIdCounter |-> 1,
     orderIdCounter |-> 1, orderItemIdCounter |-> 1]

getUser(s, id) == MapGet(s.users, id)

\* String.prototype.toLowerCase, on the usernames that occur: those written
\* with capitals, and all others, which it leaves as they are.
toLowerCase(str) ==
    CASE str = "Bob@Example.com"    -> "bob@example.com"
      [] str = "ADMIN@MILESTAR.COM" -> "admin@milestar.com"
      [] OTHER                      -> str

\* Array.from(this.users.values()).find(...): the first match in the map's
\* order, None (undefined) without one.
getUserByUsername(s, username) ==
    LET matches == SelectSeq(MapValues(s.users),
                       LAMBDA user : toLowerCase(user.username) = toLowerCase(username))
    IN  IF matches = <<>> THEN None ELSE Some(matches[1])

createUser(s, insertUser) ==
    LET id   == s.userIdCounter
        user == Spread(insertUser, [id |-> id])
    IN  [store |-> [s EXCEPT !.userIdCounter = id + 1,
                             !.users = MapSet(s.users, id, user)],
         ret   |-> user]

getAllMenuItems(s) == MapValues(s.menuItems)

\* A getMenuItemsByCategory that takes "all" for the name of a category.
getMenuItemsByCategory_NoAll(s, category) ==
    SelectSeq(MapValues(s.menuItems), LAMBDA item : item.category = category)

getMenuItemsByCategory(s, category) ==
    IF category = "all"
    THEN getAllMenuItems(s)
    ELSE SelectSeq(MapValues(s.menuItems), LAMBDA item : item.category = category)

getMenuItem(s, id) == MapGet(s.menuItems, id)

\* A createMenuItem that takes the next id from the number of stored items.
createMenuItem_IdFromSize(s, menuItem) ==
    LET id          == Len(s.menuItems) + 1
        newMenuItem == Spread(menuItem, [id |-> id])
    IN  [store |-> [s EXCEPT !.menuItemIdCounter = id + 1,
                             !.menuItems = MapSet(s.menuItems, id, newMenuItem)],
         ret   |-> newMenuItem]

createMenuItem(s, menuItem) ==
    LET id          == s.menuItemIdCounter
        newMenuItem == Spread(menuItem, [id |-> id])
    IN  [store |-> [s EXCEPT !.menuItemIdCounter = id + 1,
                             !.menuItems = MapSet(s.menuItems, id, newMenuItem)],
         ret   |-> newMenuItem]

\* An updateMenuItem that makes the item when there is none under the id.
updateMenuItem_Upsert(s, id, menuItem) ==
    LET existingMenuItem == MapGet(s.menuItems, id)
        updatedMenuItem  == IF existingMenuItem = None
                            THEN Spread(menuItem, [id |-> id])
                            ELSE Spread(existingMenuItem[1], menuItem)
    IN  [store |-> [s EXCEPT !.menuItems = MapSet(s.menuItems, id, updatedMenuItem)],
         ret   |-> Some(updatedMenuItem)]

\* An updateMenuItem that stores the given fields in place of the item.
updateMenuItem_Replace(s, id, menuItem) ==
    LET existingMenuItem == MapGet(s.menuItems, id)
    IN  IF existingMenuItem = None
        THEN [store |-> s, ret |-> None]
        ELSE LET updatedMenuItem == Spread(menuItem, [id |-> id])
             IN  [store |-> [s EXCEPT !.menuItems = MapSet(s.menuItems, id, updatedMenuItem)],
                  ret   |-> Some(updatedMenuItem)]

\* An updateMenuItem that also carries the new name and price into the order
\* items that refer to the menu item.
updateMenuItem_Cascade(s, id, menuItem) ==
    LET existingMenuItem == MapGet(s.menuItems, id)
        shown == [k \in {"name", "price"} \cap DOMAIN menuItem |-> menuItem[k]]
    IN  IF existingMenuItem = None
        THEN [store |-> s, ret |-> None]
        ELSE LET updatedMenuItem == Spread(existingMenuItem[1], menuItem)
             IN  [store |-> [s EXCEPT
                       !.menuItems = MapSet(s.menuItems, id, updatedMenuItem),
                       !.orderItems = [i \in 1..Len(s.orderItems) |->
                           IF s.orderItems[i].v.menuItemId = id
                           THEN [k |-> s.orderItems[i].k,
                                 v |-> Spread(s.orderItems[i].v, shown)]
                           ELSE s.orderItems[i]]],
                  ret   |-> Some(updatedMenuItem)]

updateMenuItem(s, id, menuItem) ==
    LET existingMenuItem == MapGet(s.menuItems, id)
    IN  IF existingMenuItem = None
        THEN [store |-> s, ret |-> None]
        ELSE LET updatedMenuItem == Spread(existingMenuItem[1], menuItem)
             IN  [store |-> [s EXCEPT !.menuItems = MapSet(s.menuItems, id, updatedMenuItem)],
                  ret   |-> Some(updatedMenuItem)]

\* Map.delete returns whether the key was present.
deleteMenuItem(s, id) ==
    [store |-> [s EXCEPT !.menuItems = MapDelete(s.menuItems, id)],
     ret   |-> MapHas(s.menuItems, id)]

\* The loop without the orderId: each item keeps the orderId it came with.
RECURSIVE AddOrderItems_PlaceholderKept(_, _, _, _)
AddOrderItems_PlaceholderKept(s, items, i, id) ==
    IF i > Len(items) THEN s
    ELSE LET orderItemId == s.orderItemIdCounter
             orderItem   == Spread(items[i], [id |-> orderItemId])
         IN  AddOrderItems_PlaceholderKept(
                 [s EXCEPT !.orderItemIdCounter = orderItemId + 1,
                           !.orderItems = MapSet(s.orderItems, orderItemId, orderItem)],
                 items, i + 1, id)

\* The loop of createOrder over items[i..]: each item gets the next order
\* item id and the order's id.
RECURSIVE AddOrderItems(_, _, _, _)
AddOrderItems(s, items, i, id) ==
    IF i > Len(items) THEN s
    ELSE LET orderItemId == s.orderItemIdCounter
             orderItem   == Spread(items[i], [id |-> orderItemId, orderId |-> id])
         IN  AddOrderItems(
                 [s EXCEPT !.orderItemIdCounter = orderItemId + 1,
                           !.orderItems = MapSet(s.orderItems, orderItemId, orderItem)],
                 items, i + 1, id)

\* A createOrder body that awaits before it stores each item.
createOrderAwaits_BeforeEachItem(items) == 0..(Len(items) - 1)

\* The places where the body of createOrder gives way to the event loop, each
\* as the number of items stored when it does.  The body has no await: from
\* the call to its return it runs without giving way.
createOrderAwaits(items) == {}

\* The number of items stored when the body gives way next, or returns, after
\* stored of them are in the store (-1: the body has not started).
NextYield(items, stored) ==
    LET stops == {k \in createOrderAwaits(items) \cup {Len(items)} : k > stored}
    IN  CHOOSE k \in stops : \A j \in stops : k <= j

\* A createOrder that reads orderIdCounter without advancing it.
createOrder_IdNotAdvanced(s, order, items, createdAt) ==
    LET id       == s.orderIdCounter
        newOrder == Spread(order, [id |-> id, createdAt |-> createdAt])
        s1       == [s EXCEPT !.orders = MapSet(s.orders, id, newOrder)]
    IN  [store |-> AddOrderItems(s1, items, 1, id), ret |-> newOrder]

\* createdAt is the value of new Date() at the call.
createOrder(s, order, items, createdAt) ==
    LET id       == s.orderIdCounter
        newOrder == Spread(order, [id |-> id, createdAt |-> createdAt])
        s1       == [s EXCEPT !.orderIdCounter = id + 1,
                              !.orders = MapSet(s.orders, id, newOrder)]
    IN  [store |-> AddOrderItems(s1, items, 1, id), ret |-> newOrder]

\* A getOrdersByUserId whose filter compares the order's id with the user id.
getOrdersByUserId_FilterById(s, userId) ==
    SortNewestFirst(SelectSeq(MapValues(s.orders), LAMBDA order : order.id = userId))

\* A getOrdersByUserId without its filter.
getOrdersByUserId_NoFilter(s, userId) == SortNewestFirst(MapValues(s.orders))

getOrdersByUserId(s, userId) ==
    SortNewestFirst(SelectSeq(MapValues(s.orders), LAMBDA order : order.userId = userId))

getAllOrders(s) == SortNewestFirst(MapValues(s.orders))

\* A getOrderWithItems that hands out the items of every order.
getOrderWithItems_AllItems(s, orderId) ==
    LET order == MapGet(s.orders, orderId)
    IN  IF order = None
        THEN None
        ELSE Some([order |-> order[1], items |-> MapValues(s.orderItems)])

getOrderWithItems(s, orderId) ==
    LET order == MapGet(s.orders, orderId)
    IN  IF order = None
        THEN None
        ELSE Some([order |-> order[1],
                   items |-> SelectSeq(MapValues(s.orderItems),
                                    LAMBDA item : item.orderId = orderId)])

\* An updateOrderStatus that writes the status into every stored order.
updateOrderStatus_AllOrders(s, orderId, status) ==
    LET order == MapGet(s.orders, orderId)
    IN  IF order = None
        THEN [store |-> s, ret |-> None]
        ELSE [store |-> [s EXCEPT !.orders =
                            [i \in 1..Len(s.orders) |->
                                [k |-> s.orders[i].k,
                                 v |-> Spread(s.orders[i].v, [status |-> status])]]],
              ret   |-> Some(Spread(order[1], [status |-> status]))]

\* The position of a status in the usual progress of an order; 0 for an order
\* without a status.
StatusRank(order) ==
    IF "status" \notin DOMAIN order THEN 0
    ELSE CASE order.status = "new"       -> 1
           [] order.status = "preparing" -> 2
           [] order.status = "ready"     -> 3
           [] OTHER                      -> 4

\* An updateOrderStatus that lets the status only move forward: a step back
\* returns the order as it is.
updateOrderStatus_ForwardOnly(s, orderId, status) ==
    LET order == MapGet(s.orders, orderId)
    IN  IF order = None
        THEN [store |-> s, ret |-> None]
        ELSE LET updatedOrder == Spread(order[1], [status |-> status])
             IN  IF StatusRank(updatedOrder) < StatusRank(order[1])
                 THEN [store |-> s, ret |-> order]
                 ELSE [store |-> [s EXCEPT !.orders = MapSet(s.orders, orderId, updatedOrder)],
                       ret   |-> Some(updatedOrder)]

updateOrderStatus(s, orderId, status) ==
    LET order == MapGet(s.orders, orderId)
    IN  IF order = None
        THEN [store |-> s, ret |-> None]
        ELSE LET updatedOrder == Spread(order[1], [status |-> status])
             IN  [store |-> [s EXCEPT !.orders = MapSet(s.orders, orderId, updatedOrder)],
                  ret   |-> Some(updatedOrder)]

\* menuItems.forEach(item => this.createMenuItem(item)), from item i on.
RECURSIVE seedMenuItems(_, _)
seedMenuItems(s, i) ==
    IF i > Len(SeedMenuItems) THEN s
    ELSE seedMenuItems(createMenuItem(s, SeedMenuItems[i]).store, i + 1)

\* new MemStorage(): the default admin user, then the seed menu.
AdminUser ==
    [username |-> "admin@milestar.com", password |-> "admin123",
     name |-> "Admin", isAdmin |-> TRUE]

NewMemStorage == seedMenuItems(createUser(EmptyStorage, AdminUser).store, 1)

-----------------------------------------------------------------------------
(* The request router.  A caller is None (no session) or Some(user), the   *)
(* stored user the session attaches as req.user.  Every handler takes the  *)
(* store and the request and returns the store after the request and the   *)
(* response sent: [store |-> ..., res |-> [op, status, body]].             *)

Response(op, status, body) == [op |-> op, status |-> status, body |-> body]

Message(text) == [message |-> text]

\* req.isAuthenticated()
IsAuthenticated(caller) == caller # None

\* req.user.isAdmin as a condition (undefined is falsy).
UserIsAdmin(user) == "isAdmin" \in DOMAIN user /\ user.isAdmin

\* An isAdmin middleware that only asks for a session.
PassesIsAdmin_AuthOnly(caller) == IsAuthenticated(caller)

\* The isAdmin middleware lets the request through.
PassesIsAdmin(caller) == IsAuthenticated(caller) /\ UserIsAdmin(caller[1])

\* parseInt of a path parameter, given as its characters: the value of the
\* longest prefix of decimal digits, None (NaN) when that prefix is empty.
DigitChars == <<"0", "1", "2", "3", "4", "5", "6", "7", "8", "9">>

IsDigit(c) == \E d \in 1..Len(DigitChars) : DigitChars[d] = c

DigitValue(c) == (CHOOSE d \in 1..Len(DigitChars) : DigitChars[d] = c) - 1

RECURSIVE ParseDigits(_, _, _)
ParseDigits(chars, i, acc) ==
    IF i > Len(chars) \/ ~IsDigit(chars[i]) THEN acc
    ELSE ParseDigits(chars, i + 1, acc * 10 + DigitValue(chars[i]))

parseInt(chars) ==
    IF chars = <<>> \/ ~IsDigit(chars[1]) THEN None
    ELSE Some(ParseDigits(chars, 1, 0))

\* isNaN(id)
isNaN(id) == id = None

\* ---- POST /api/orders ----

\* The check without its cartItems.length === 0 part.
CartIsEmpty_NoLengthCheck(body) ==
    \/ "cartItems" \notin DOMAIN body
    \/ body.cartItems.t # "array"

\* !cartItems || !Array.isArray(cartItems) || cartItems.length === 0
CartIsEmpty(body) ==
    \/ "cartItems" \notin DOMAIN body
    \/ body.cartItems.t # "array"
    \/ Len(body.cartItems.v) = 0

\* { ...orderDetails, userId: req.user.id } (an undefined orderDetails spreads
\* to nothing).
OrderDetailsOf(body) ==
    IF "orderDetails" \in DOMAIN body THEN body.orderDetails ELSE <<>>

\* The owner is taken from the client's orderDetails when it names one.
WithOwner_ClientFirst(orderDetails, user) ==
    Spread([userId |-> Num(user.id)], orderDetails)

WithOwner(orderDetails, user) ==
    Spread(orderDetails, [userId |-> Num(user.id)])

\* One cart line as handed to insertOrderItemSchema.parse: a key whose value
\* is undefined counts as absent.
OrderItemInput(item) ==
    LET renamed == [k \in {"name", "price", "quantity"} \cap DOMAIN item |-> item[k]]
        menuRef == IF "id" \in DOMAIN item THEN [menuItemId |-> item.id] ELSE <<>>
    IN  Spread(Spread(renamed, menuRef), [orderId |-> Num(0)])

\* cartItems.map(item => insertOrderItemSchema.parse({...})): whether every
\* line parses, and the parsed lines.
\* Only the first cart line is looked at.
CartItemsAccepted_FirstOnly(body) ==
    SchemaAccepts(insertOrderItemSchema, OrderItemInput(body.cartItems.v[1]))

CartItemsAccepted(body) ==
    \A i \in 1..Len(body.cartItems.v) :
        SchemaAccepts(insertOrderItemSchema, OrderItemInput(body.cartItems.v[i]))

ValidatedOrderItems(body) ==
    [i \in 1..Len(body.cartItems.v) |->
        SchemaParse(insertOrderItemSchema, OrderItemInput(body.cartItems.v[i]))]

PostOrders(s, caller, body, createdAt) ==
    LET op == "POST /api/orders"
    IN  IF ~IsAuthenticated(caller)
        THEN [store |-> s, res |-> Response(op, 401, Message("Unauthorized"))]
        ELSE IF CartIsEmpty(body)
        THEN [store |-> s, res |-> Response(op, 400, Message("Cart cannot be empty"))]
        ELSE LET details == WithOwner(OrderDetailsOf(body), caller[1])
             IN  IF ~SchemaAccepts(insertOrderSchema, details) \/ ~CartItemsAccepted(body)
                 THEN [store |-> s, res |-> Response(op, 400, Message("Invalid order data"))]
                 ELSE LET validatedOrderDetails == SchemaParse(insertOrderSchema, details)
                          orderItems == ValidatedOrderItems(body)
                          created == createOrder(s, validatedOrderDetails, orderItems, createdAt)
                      IN  [store |-> created.store, res |-> Response(op, 201, created.ret)]

\* ---- GET /api/orders ----

GetOrders(s, caller) ==
    IF ~IsAuthenticated(caller)
    THEN [store |-> s, res |-> Response("GET /api/orders", 401, Message("Unauthorized"))]
    ELSE [store |-> s,
          res |-> Response("GET /api/orders", 200,
                           IF UserIsAdmin(caller[1])
                           THEN getAllOrders(s)
                           ELSE getOrdersByUserId(s, caller[1].id))]

\* ---- GET /api/orders/:id ----

\* The owner check is left out: any authenticated caller may read.
AccessDenied_NoOwnerCheck(user, order) == FALSE

\* !req.user.isAdmin && orderWithItems.order.userId !== req.user.id
AccessDenied(user, order) == ~UserIsAdmin(user) /\ order.userId # user.id

GetOrderById(s, caller, idParam) ==
    LET op == "GET /api/orders/:id"
        id == parseInt(idParam)
    IN  IF ~IsAuthenticated(caller)
        THEN [store |-> s, res |-> Response(op, 401, Message("Unauthorized"))]
        ELSE IF isNaN(id)
        THEN [store |-> s, res |-> Response(op, 400, Message("Invalid ID"))]
        ELSE LET orderWithItems == getOrderWithItems(s, id[1])
             IN  IF orderWithItems = None
                 THEN [store |-> s, res |-> Response(op, 404, Message("Order not found"))]
                 ELSE IF AccessDenied(caller[1], orderWithItems[1].order)
                 THEN [store |-> s, res |-> Response(op, 403, Message("Access denied"))]
                 ELSE [store |-> s, res |-> Response(op, 200, orderWithItems[1])]

\* ---- PATCH /api/orders/:id/status ----

ValidStatuses == {"new", "preparing", "ready", "completed"}

\* !status || typeof status !== 'string' (the empty string is falsy).
StatusMissing(body) ==
    \/ "status" \notin DOMAIN body
    \/ body.status.t # "string"
    \/ body.status.v = ""

PatchOrderStatus(s, caller, idParam, body) ==
    LET op == "PATCH /api/orders/:id/status"
        id == parseInt(idParam)
    IN  IF ~PassesIsAdmin(caller)
        THEN [store |-> s,
              res |-> Response(op, 403, Message("Forbidden - Admin access required"))]
        ELSE IF isNaN(id)
        THEN [store |-> s, res |-> Response(op, 400, Message("Invalid ID"))]
        ELSE IF StatusMissing(body)
        THEN [store |-> s, res |-> Response(op, 400, Message("Status is required"))]
        ELSE IF body.status.v \notin ValidStatuses
        THEN [store |-> s, res |-> Response(op, 400, Message("Invalid status"))]
        ELSE LET updated == updateOrderStatus(s, id[1], body.status.v)
             IN  IF updated.ret = None
                 THEN [store |-> s, res |-> Response(op, 404, Message("Order not found"))]
                 ELSE [store |-> updated.store, res |-> Response(op, 200, updated.ret[1])]

\* ---- GET /api/menu, GET /api/menu/:id ----

\* req.query.category as string || 'all': query is None or Some(category).
GetMenu(s, query) ==
    LET category == IF query = None \/ query[1] = "" THEN "all" ELSE query[1]
    IN  [store |-> s,
         res |-> Response("GET /api/menu", 200, getMenuItemsByCategory(s, category))]

GetMenuItemById(s, idParam) ==
    LET op == "GET /api/menu/:id"
        id == parseInt(idParam)
    IN  IF isNaN(id)
        THEN [store |-> s, res |-> Response(op, 400, Message("Invalid ID"))]
        ELSE LET menuItem == getMenuItem(s, id[1])
             IN  IF menuItem = None
                 THEN [store |-> s, res |-> Response(op, 404, Message("Menu item not found"))]
                 ELSE [store |-> s, res |-> Response(op, 200, menuItem[1])]

\* ---- POST /api/menu, PUT /api/menu/:id, DELETE /api/menu/:id (isAdmin) ----

Forbidden(s, op) ==
    [store |-> s, res |-> Response(op, 403, Message("Forbidden - Admin access required"))]

PostMenu(s, caller, body) ==
    LET op == "POST /api/menu"
    IN  IF ~PassesIsAdmin(caller)
        THEN Forbidden(s, op)
        ELSE IF ~SchemaAccepts(insertMenuItemSchema, body)
        THEN [store |-> s, res |-> Response(op, 400, Message("Invalid menu item data"))]
        ELSE LET created == createMenuItem(s, SchemaParse(insertMenuItemSchema, body))
             IN  [store |-> created.store, res |-> Response(op, 201, created.ret)]

\* A PUT /api/menu/:id that looks at the id and the body before it asks who
\* calls.
PutMenu_ValidateFirst(s, caller, idParam, body) ==
    LET op == "PUT /api/menu/:id"
        id == parseInt(idParam)
    IN  IF isNaN(id)
        THEN [store |-> s, res |-> Response(op, 400, Message("Invalid ID"))]
        ELSE IF ~SchemaAccepts(Partial(insertMenuItemSchema), body)
        THEN [store |-> s, res |-> Response(op, 400, Message("Invalid menu item data"))]
        ELSE IF ~PassesIsAdmin(caller)
        THEN Forbidden(s, op)
        ELSE LET validatedData == SchemaParse(Partial(insertMenuItemSchema), body)
                 updated       == updateMenuItem(s, id[1], validatedData)
             IN  IF updated.ret = None
                 THEN [store |-> s, res |-> Response(op, 404, Message("Menu item not found"))]
                 ELSE [store |-> updated.store, res |-> Response(op, 200, updated.ret[1])]

PutMenu(s, caller, idParam, body) ==
    LET op == "PUT /api/menu/:id"
        id == parseInt(idParam)
    IN  IF ~PassesIsAdmin(caller)
        THEN Forbidden(s, op)
        ELSE IF isNaN(id)
        THEN [store |-> s, res |-> Response(op, 400, Message("Invalid ID"))]
        ELSE IF ~SchemaAccepts(Partial(insertMenuItemSchema), body)
        THEN [store |-> s, res |-> Response(op, 400, Message("Invalid menu item data"))]
        ELSE LET validatedData == SchemaParse(Partial(insertMenuItemSchema), body)
                 updated       == updateMenuItem(s, id[1], validatedData)
             IN  IF updated.ret = None
                 THEN [store |-> s, res |-> Response(op, 404, Message("Menu item not found"))]
                 ELSE [store |-> updated.store, res |-> Response(op, 200, updated.ret[1])]

DeleteMenu(s, caller, idParam) ==
    LET op == "DELETE /api/menu/:id"
        id == parseInt(idParam)
    IN  IF ~PassesIsAdmin(caller)
        THEN Forbidden(s, op)
        ELSE IF isNaN(id)
        THEN [store |-> s, res |-> Response(op, 400, Message("Invalid ID"))]
        ELSE LET deleted == deleteMenuItem(s, id[1])
             IN  IF ~deleted.ret
                 THEN [store |-> s, res |-> Response(op, 404, Message("Menu item not found"))]
                 ELSE [store |-> deleted.store, res |-> Response(op, 204, <<>>)]

-----------------------------------------------------------------------------
(* The totals of the cart (CartProvider), as the order page sends them.    *)

\* TAX_RATE = 0.07, in hundredths.
TAX_RATE == 7

\* items.reduce((sum, item) => sum + item.price * item.quantity, 0), over the
\* first n items.
RECURSIVE SumOfLines(_, _)
SumOfLines(items, n) ==
    IF n = 0 THEN 0
    ELSE SumOfLines(items, n - 1) + items[n].price * items[n].quantity

cartSubtotal(items) == SumOfLines(items, Len(items))

-----------------------------------------------------------------------------
(* The requests tried.                                                     *)

\* The decimal digits of n >= 0, as a path parameter carries them.
RECURSIVE ToChars(_)
ToChars(n) ==
    IF n < 10 THEN <<DigitChars[n + 1]>>
    ELSE ToChars(n \div 10) \o <<DigitChars[(n % 10) + 1]>>

StoredUsers == {storage.users[i].v : i \in 1..Len(storage.users)}

\* Who may call: nobody logged in, or any stored user.
Callers == {None} \cup {Some(user) : user \in StoredUsers}

\* What the registration form sends (isAdmin: false).
InsertUsers ==
    {[username |-> "bob@example.com", password |-> "secret", name |-> "Bob",
      isAdmin |-> FALSE]}

\* The order of the spec's scenario: one line of Tea, 1.5 each, twice.
ScenarioDetails ==
    [customerName |-> Str("A"), customerPhone |-> Str("1234567890"),
     orderType |-> Str("pickup"),
     subtotal |-> Num(300), tax |-> Num(21), total |-> Num(321)]

\* The same details from a client that also names the admin as the owner and
\* asks for a status.
ForgedDetails ==
    Spread(ScenarioDetails, [userId |-> Num(1), status |-> Str("completed")])

TeaLine == [id |-> Num(8), name |-> Str("Tea"), price |-> Num(150), quantity |-> Num(2)]

LatteLine ==
    [id |-> Num(6), name |-> Str("Cafe Latte"), price |-> Num(17900), quantity |-> Num(1)]

BadLine == [id |-> Num(6), name |-> Str("Cafe Latte"), price |-> Str("free")]

OrderBodies ==
    {[orderDetails |-> ScenarioDetails, cartItems |-> Arr(<<TeaLine>>)],
     [orderDetails |-> ForgedDetails, cartItems |-> Arr(<<LatteLine, TeaLine>>)],
     [orderDetails |-> ScenarioDetails, cartItems |-> Arr(<<>>)],
     [orderDetails |-> ScenarioDetails, cartItems |-> Str("Tea")],
     [orderDetails |-> ScenarioDetails],
     [orderDetails |-> [customerName |-> Str("A")], cartItems |-> Arr(<<TeaLine>>)],
     [orderDetails |-> ScenarioDetails, cartItems |-> Arr(<<TeaLine, BadLine>>)]}

OrderIdParams ==
    {ToChars(n) : n \in 1..(MaxOrders + 1)} \cup {<<"x">>}

StatusBodies ==
    {[status |-> Str("completed")], [status |-> Str("cancelled")], <<>>}

TeaItem ==
    [name |-> Str("Tea"), description |-> Str("d"), price |-> Num(150),
     imageUrl |-> Str("u"), category |-> Str("beverage")]

MenuBodies ==
    {Spread(TeaItem, [id |-> Num(1)]),
     [name |-> Str("Tea")],
     Spread(TeaItem, [price |-> Str("1.5")])}

MenuPatches ==
    {[price |-> Num(175)], [name |-> Str("Chai"), id |-> Num(1)],
     [price |-> Str("1.75")]}

MenuIdParams ==
    {ToChars(n) : n \in Len(SeedMenuItems)..(Len(SeedMenuItems) + MaxMenuCreates + 1)}
    \cup {<<"x">>}

MenuQueries == {None, Some("beverage")}

-----------------------------------------------------------------------------
(* The state machine.  Each specification below takes the requests of one  *)
(* area: the order handlers read and write users, orders and order items   *)
(* only, the menu handlers users and menu items only.                      *)

IdsOf(m) == [i \in 1..Len(m) |-> m[i].v.id]

Init ==
    /\ storage = NewMemStorage
    /\ clock = 0
    /\ placed = <<>>
    /\ adminPatched = {}
    /\ issued = [users |-> IdsOf(NewMemStorage.users),
                 menuItems |-> IdsOf(NewMemStorage.menuItems),
                 orders |-> <<>>, orderItems |-> <<>>]
    /\ deletedMenu = <<>>
    /\ pending = {}
    /\ cartItems = <<>>
    /\ localStorage = None
    /\ mounted = FALSE
    /\ updates = <<>>
    /\ effects = {}
    /\ sinceMount = [saved |-> None, operated |-> FALSE]
    /\ orderPage = [orderId |-> None, isConfirmationVisible |-> FALSE]
    /\ orderMutation = [status |-> "idle"]
    /\ wire = <<>>

\* f with key k bound to x.
Bind(f, k, x) == [j \in DOMAIN f \cup {k} |-> IF j = k THEN x ELSE f[j]]

\* storage.createUser, as the registration of the authentication collaborator
\* calls it.
CreateUser ==
    \E insertUser \in InsertUsers :
        LET out == createUser(storage, insertUser)
        IN  /\ Len(storage.users) < MaxUsers
            /\ storage' = out.store
            /\ issued' = [issued EXCEPT !.users = Append(@, out.ret.id)]
            /\ UNCHANGED <<client, pending, clock, placed, adminPatched, deletedMenu>>

\* POST /api/orders; new Date() reads the clock, which has not gone back.
RequestPostOrders ==
    \E caller \in Callers, body \in OrderBodies :
      \E createdAt \in IF PostOrders(storage, caller, body, clock).res.status = 201
                        THEN {clock, clock + 1} ELSE {clock} :
        LET out     == PostOrders(storage, caller, body, createdAt)
            created == out.res.status = 201
            newItems == SubSeq(out.store.orderItems, Len(storage.orderItems) + 1,
                               Len(out.store.orderItems))
        IN  /\ Len(out.store.orders) <= MaxOrders
            /\ Len(storage.orders) < MaxOrders \/ ~created
            /\ storage' = out.store
            /\ clock' = IF created THEN createdAt ELSE clock
            /\ placed' = IF created
                         THEN Bind(placed, out.res.body.id,
                                   [by |-> caller[1].id,
                                    details |-> OrderDetailsOf(body),
                                    items |-> ValidatedOrderItems(body),
                                    order |-> out.res.body])
                         ELSE placed
            /\ issued' = IF created
                         THEN [issued EXCEPT !.orders = Append(@, out.res.body.id),
                                             !.orderItems = @ \o IdsOf(newItems)]
                         ELSE issued
            /\ UNCHANGED <<client, pending, adminPatched, deletedMenu>>

\* GET /api/orders and GET /api/orders/:id answer from the store and leave it
\* as it is.
RequestGetOrders ==
    \E caller \in Callers :
        /\ storage' = GetOrders(storage, caller).store
        /\ UNCHANGED <<client, pending, clock, placed, adminPatched, issued, deletedMenu>>

RequestGetOrderById ==
    \E caller \in Callers, idParam \in OrderIdParams :
        /\ storage' = GetOrderById(storage, caller, idParam).store
        /\ UNCHANGED <<client, pending, clock, placed, adminPatched, issued, deletedMenu>>

RequestPatchOrderStatus ==
    \E caller \in Callers, idParam \in OrderIdParams, body \in StatusBodies :
        LET out == PatchOrderStatus(storage, caller, idParam, body)
        IN  /\ storage' = out.store
            /\ adminPatched' =
                   IF out.res.status = 200 /\ caller # None /\ UserIsAdmin(caller[1])
                   THEN adminPatched \cup {out.res.body.id}
                   ELSE adminPatched
            /\ UNCHANGED <<client, pending, clock, placed, issued, deletedMenu>>

RequestGetMenu ==
    \E query \in MenuQueries :
        /\ storage' = GetMenu(storage, query).store
        /\ UNCHANGED <<client, pending, clock, placed, adminPatched, issued, deletedMenu>>

RequestGetMenuItemById ==
    \E idParam \in MenuIdParams :
        /\ storage' = GetMenuItemById(storage, idParam).store
        /\ UNCHANGED <<client, pending, clock, placed, adminPatched, issued, deletedMenu>>

RequestPostMenu ==
    \E caller \in Callers, body \in MenuBodies :
        LET out == PostMenu(storage, caller, body)
        IN  /\ storage.menuItemIdCounter <= Len(SeedMenuItems) + MaxMenuCreates
            /\ storage' = out.store
            /\ issued' = IF out.res.status = 201
                         THEN [issued EXCEPT !.menuItems = Append(@, out.res.body.id)]
                         ELSE issued
            /\ UNCHANGED <<client, pending, clock, placed, adminPatched, deletedMenu>>

RequestPutMenu ==
    \E caller \in Callers, idParam \in MenuIdParams, body \in MenuPatches :
        LET out == PutMenu(storage, caller, idParam, body)
        IN  /\ storage' = out.store
            /\ UNCHANGED <<client, pending, clock, placed, adminPatched, issued, deletedMenu>>

RequestDeleteMenu ==
    \E caller \in Callers, idParam \in MenuIdParams :
        LET out == DeleteMenu(storage, caller, idParam)
        IN  /\ storage' = out.store
            /\ deletedMenu' = IF out.res.status = 204
                              THEN Bind(deletedMenu, parseInt(idParam)[1],
                                        storage.menuItemIdCounter)
                              ELSE deletedMenu
            /\ UNCHANGED <<client, pending, clock, placed, adminPatched, issued>>

Next ==
    \/ CreateUser
    \/ RequestPostOrders
    \/ RequestGetOrders
    \/ RequestGetOrderById
    \/ RequestPatchOrderStatus
    \/ RequestGetMenu
    \/ RequestGetMenuItemById
    \/ RequestPostMenu
    \/ RequestPutMenu
    \/ RequestDeleteMenu

Spec == Init /\ [][Next]_vars

OrdersNext ==
    \/ CreateUser
    \/ RequestPostOrders
    \/ RequestGetOrders
    \/ RequestGetOrderById
    \/ RequestPatchOrderStatus

OrdersSpec == Init /\ [][OrdersNext]_vars

MenuNext ==
    \/ CreateUser
    \/ RequestGetMenu
    \/ RequestGetMenuItemById
    \/ RequestPostMenu
    \/ RequestPutMenu
    \/ RequestDeleteMenu

MenuSpec == Init /\ [][MenuNext]_vars

\* The store called on its own, as IStorage offers it: the calls that hand
\* out ids, and the one that removes an entity.
CallCreateMenuItem ==
    LET out == createMenuItem(storage, SchemaParse(insertMenuItemSchema, TeaItem))
    IN  /\ storage.menuItemIdCounter <= Len(SeedMenuItems) + MaxMenuCreates
        /\ storage' = out.store
        /\ issued' = [issued EXCEPT !.menuItems = Append(@, out.ret.id)]
        /\ UNCHANGED <<client, pending, clock, placed, adminPatched, deletedMenu>>

CallDeleteMenuItem ==
    \E id \in Len(SeedMenuItems)..(Len(SeedMenuItems) + MaxMenuCreates + 1) :
        LET out == deleteMenuItem(storage, id)
        IN  /\ storage' = out.store
            /\ deletedMenu' = IF out.ret
                              THEN Bind(deletedMenu, id, storage.menuItemIdCounter)
                              ELSE deletedMenu
            /\ UNCHANGED <<client, pending, clock, placed, adminPatched, issued>>

CallCreateOrder ==
    \E user \in {getUser(storage, 1)[1]}, n \in 0..2, createdAt \in {clock, clock + 1} :
        LET order == SchemaParse(insertOrderSchema, WithOwner(ScenarioDetails, user))
            lines == SubSeq(<<LatteLine, TeaLine>>, 1, n)
            items == [i \in 1..n |->
                        SchemaParse(insertOrderItemSchema, OrderItemInput(lines[i]))]
            out   == createOrder(storage, order, items, createdAt)
            newItems == SubSeq(out.store.orderItems, Len(storage.orderItems) + 1,
                               Len(out.store.orderItems))
        IN  /\ Len(storage.orders) < MaxOrders
            /\ storage' = out.store
            /\ clock' = createdAt
            /\ placed' = Bind(placed, out.ret.id,
                              [by |-> user.id, details |-> ScenarioDetails,
                               items |-> items, order |-> out.ret])
            /\ issued' = [issued EXCEPT !.orders = Append(@, out.ret.id),
                                        !.orderItems = @ \o IdsOf(newItems)]
            /\ UNCHANGED <<client, pending, adminPatched, deletedMenu>>

\* updateMenuItem on a menu item the cart lines refer to, with the data a
\* valid PUT hands it.
ReferencedMenuIds == {LatteLine.id.v, TeaLine.id.v}

CallUpdateMenuItem ==
    \E id \in ReferencedMenuIds, body \in MenuPatches :
        /\ SchemaAccepts(Partial(insertMenuItemSchema), body)
        /\ storage' = updateMenuItem(storage, id,
                           SchemaParse(Partial(insertMenuItemSchema), body)).store
        /\ UNCHANGED <<client, pending, clock, placed, adminPatched, issued, deletedMenu>>

StoreNext ==
    \/ CreateUser
    \/ CallCreateMenuItem
    \/ CallDeleteMenuItem
    \/ CallCreateOrder

StoreSpec == Init /\ [][StoreNext]_vars

\* ---- The user methods called on their own ----

\* What createUser is called with: new names, a name in another spelling, the
\* admin's name in capitals, and a name a second time.
Registration(username, name) ==
    [username |-> username, password |-> "secret", name |-> name, isAdmin |-> FALSE]

Registrations ==
    {Registration("bob@example.com", "Bob"),
     Registration("Bob@Example.com", "Bob"),
     Registration("bob@example.com", "Robert"),
     Registration("alice@example.com", "Alice"),
     Registration("ADMIN@MILESTAR.COM", "Eve")}

CallCreateUser ==
    \E insertUser \in Registrations :
        LET out == createUser(storage, insertUser)
        IN  /\ Len(storage.users) < MaxAccounts
            /\ storage' = out.store
            /\ issued' = [issued EXCEPT !.users = Append(@, out.ret.id)]
            /\ UNCHANGED <<client, pending, clock, placed, adminPatched, deletedMenu>>

\* getUserByUsername and getUser read the store and leave it as it is.
CallGetUser ==
    \E insertUser \in Registrations, id \in 1..MaxAccounts :
        /\ getUserByUsername(storage, insertUser.username) \in {None} \cup
               {Some(user) : user \in StoredUsers}
        /\ getUser(storage, id) \in {None} \cup {Some(user) : user \in StoredUsers}
        /\ UNCHANGED vars

UsersNext ==
    \/ CallCreateUser
    \/ CallGetUser

UsersSpec == Init /\ [][UsersNext]_vars

\* ---- The status of an order ----

\* A PATCH body for each of the four statuses.
StatusBody(status) == [status |-> Str(status)]

\* Bodies the handler refuses: no status, a status that is not a string, the
\* empty string, and strings outside the four (in another case, too).
RefusedStatusBodies ==
    {<<>>, [status |-> Num(1)], [status |-> Arr(<<>>)], StatusBody(""),
     StatusBody("cancelled"), StatusBody("Completed")}

\* PATCH /api/orders/:id/status with every body: the four statuses and those
\* the handler refuses.
RequestPatchAnyStatus ==
    \E caller \in Callers, idParam \in OrderIdParams,
       body \in {StatusBody(status) : status \in ValidStatuses} \cup RefusedStatusBodies :
        LET out == PatchOrderStatus(storage, caller, idParam, body)
        IN  /\ storage' = out.store
            /\ adminPatched' =
                   IF out.res.status = 200 /\ caller # None /\ UserIsAdmin(caller[1])
                   THEN adminPatched \cup {out.res.body.id}
                   ELSE adminPatched
            /\ UNCHANGED <<client, pending, clock, placed, issued, deletedMenu>>

\* Orders are placed and their status is set, over and over.
StatusNext ==
    \/ CallCreateOrder
    \/ RequestPatchAnyStatus

StatusSpec == Init /\ [][StatusNext]_vars

\* ---- The menu listing ----

\* updateMenuItem that moves an item to another category, one of them the
\* name of a seeded category in another case.
CallRecategorize ==
    \E id \in Len(SeedMenuItems)..(Len(SeedMenuItems) + MaxMenuCreates + 1),
       category \in {"food", "Beverage"} :
        /\ storage' = updateMenuItem(storage, id, [category |-> category]).store
        /\ UNCHANGED <<client, pending, clock, placed, adminPatched, issued, deletedMenu>>

\* Menu items are created, moved between categories and deleted.
ListingNext ==
    \/ CallCreateMenuItem
    \/ CallRecategorize
    \/ CallDeleteMenuItem

ListingSpec == Init /\ [][ListingNext]_vars

\* ---- The order handlers in their parts ----
\* A handler runs without interruption up to an await and is resumed by the
\* event loop later; between the two, parts of other handlers may run.  The
\* store methods are async functions without an await in their body, so a
\* method's body runs inside the part that calls it, and the handler waits
\* for the promise it returned.  Waiting handlers are resumed in any order.
\* A handler that answers before it calls the store has no second part.

\* A handler waiting for the promise of a store call: the response it will
\* send, and for createOrder the items and how many of them are stored.
Waiting(res, orderId, items, stored) ==
    [res |-> res, orderId |-> orderId, items |-> items, stored |-> stored]

AtomicBodies ==
    {[orderDetails |-> ScenarioDetails, cartItems |-> Arr(<<TeaLine>>)],
     [orderDetails |-> ForgedDetails, cartItems |-> Arr(<<LatteLine, TeaLine>>)],
     [orderDetails |-> ScenarioDetails, cartItems |-> Arr(<<>>)]}

\* POST /api/orders up to `await storage.createOrder(...)`: the order is
\* stored, then the items up to the place where the body gives way.
BeginPostOrders ==
    \E caller \in Callers, body \in AtomicBodies, createdAt \in {clock, clock + 1} :
        LET full    == PostOrders(storage, caller, body, createdAt)
            created == full.res.status = 201
            items   == ValidatedOrderItems(body)
            id      == full.res.body.id
            stop    == NextYield(items, -1)
            s1      == [storage EXCEPT !.orderIdCounter = full.store.orderIdCounter,
                                       !.orders = full.store.orders]
            after   == AddOrderItems(s1, SubSeq(items, 1, stop), 1, id)
        IN  IF created
            THEN /\ Len(storage.orders) < MaxOrders
                 /\ Cardinality(pending) < MaxPending
                 /\ storage' = after
                 /\ clock' = createdAt
                 /\ placed' = Bind(placed, id,
                                   [by |-> caller[1].id, details |-> OrderDetailsOf(body),
                                    items |-> items, order |-> full.res.body])
                 /\ issued' = [issued EXCEPT
                        !.orders = Append(@, id),
                        !.orderItems = @ \o IdsOf(SubSeq(after.orderItems,
                                                        Len(storage.orderItems) + 1,
                                                        Len(after.orderItems)))]
                 /\ pending' = pending \cup {Waiting(full.res, id, items, stop)}
                 /\ UNCHANGED <<client, adminPatched, deletedMenu>>
            ELSE /\ createdAt = clock
                 /\ UNCHANGED vars

\* GET /api/orders/:id up to `await storage.getOrderWithItems(id)`: what the
\* handler will answer is read from the store now.
BeginGetOrderById ==
    \E caller \in Callers, idParam \in OrderIdParams :
        LET out == GetOrderById(storage, caller, idParam)
        IN  /\ Cardinality(pending) < MaxPending
            /\ out.res.status \in {200, 403, 404}
            /\ pending' = pending \cup {Waiting(out.res, 0, <<>>, 0)}
            /\ UNCHANGED <<client, storage, clock, placed, adminPatched, issued, deletedMenu>>

\* GET /api/orders up to `await storage.getAllOrders()` or getOrdersByUserId.
BeginGetOrders ==
    \E caller \in Callers :
        LET out == GetOrders(storage, caller)
        IN  /\ Cardinality(pending) < MaxPending
            /\ out.res.status = 200
            /\ pending' = pending \cup {Waiting(out.res, 0, <<>>, 0)}
            /\ UNCHANGED <<client, storage, clock, placed, adminPatched, issued, deletedMenu>>

\* The event loop resumes a waiting handler: a createOrder that gave way stores
\* its next items; a handler whose promise is settled sends its response.
Resume ==
    \E w \in pending :
        IF w.stored < Len(w.items)
        THEN LET stop  == NextYield(w.items, w.stored)
                 after == AddOrderItems(storage, SubSeq(w.items, 1, stop),
                                        w.stored + 1, w.orderId)
             IN  /\ storage' = after
                 /\ issued' = [issued EXCEPT
                        !.orderItems = @ \o IdsOf(SubSeq(after.orderItems,
                                                        Len(storage.orderItems) + 1,
                                                        Len(after.orderItems)))]
                 /\ pending' = (pending \ {w}) \cup {[w EXCEPT !.stored = stop]}
                 /\ UNCHANGED <<client, clock, placed, adminPatched, deletedMenu>>
        ELSE /\ pending' = pending \ {w}
             /\ UNCHANGED <<client, storage, clock, placed, adminPatched, issued, deletedMenu>>

AtomicNext ==
    \/ BeginPostOrders
    \/ BeginGetOrderById
    \/ BeginGetOrders
    \/ Resume

AtomicSpec == Init /\ [][AtomicNext]_vars

\* Orders placed while the menu items they refer to are created, changed and
\* removed.
SnapshotNext ==
    \/ CallCreateMenuItem
    \/ CallUpdateMenuItem
    \/ CallDeleteMenuItem
    \/ CallCreateOrder

SnapshotSpec == Init /\ [][SnapshotNext]_vars

-----------------------------------------------------------------------------
(* The cart (CartProvider).  A cart line is the menu item it was added     *)
(* from and its quantity.  The cart functions hand setCartItems an updater *)
(* (prevItems) => next state; React queues it and, at the next render,     *)
(* calls the queued updaters in order, each on what the one before it      *)
(* returned.  The updaters are the operators named as the cart functions;  *)
(* a queued call is the record of its function and arguments.              *)

\* prevItems.findIndex / find by id: whether a line has the id, and the first.
InCart(prevItems, itemId) == \E i \in 1..Len(prevItems) : prevItems[i].id = itemId

existingItemIndex(prevItems, itemId) ==
    CHOOSE i \in 1..Len(prevItems) :
        /\ prevItems[i].id = itemId
        /\ \A j \in 1..(i - 1) : prevItems[j].id # itemId

\* The item is added as a new line whether or not the cart has it.
addToCart_AlwaysAppends(prevItems, item) ==
    Append(prevItems, Spread(item, [quantity |-> 1]))

addToCart(prevItems, item) ==
    IF InCart(prevItems, item.id)
    THEN LET i == existingItemIndex(prevItems, item.id)
         IN  [prevItems EXCEPT
                 ![i] = Spread(prevItems[i], [quantity |-> prevItems[i].quantity + 1])]
    ELSE Append(prevItems, Spread(item, [quantity |-> 1]))

\* if (!itemToRemove) return prevItems; else the lines with another id.
removeFromCart(prevItems, itemId) ==
    IF ~InCart(prevItems, itemId) THEN prevItems
    ELSE SelectSeq(prevItems, LAMBDA item : item.id # itemId)

\* The quantity is stored as given, without the quantity <= 0 branch.
updateQuantity_NoRemoval(prevItems, itemId, quantity) ==
    [i \in 1..Len(prevItems) |->
        IF prevItems[i].id = itemId
        THEN Spread(prevItems[i], [quantity |-> quantity])
        ELSE prevItems[i]]

\* quantity <= 0 hands the item to removeFromCart and returns.
updateQuantity(prevItems, itemId, quantity) ==
    IF quantity <= 0 THEN removeFromCart(prevItems, itemId)
    ELSE [i \in 1..Len(prevItems) |->
             IF prevItems[i].id = itemId
             THEN Spread(prevItems[i], [quantity |-> quantity])
             ELSE prevItems[i]]

\* clearCart leaves the cart as it is.
clearCart_Keeps(prevItems) == prevItems

\* setCartItems([])
clearCart(prevItems) == <<>>

\* A queued call is [op |-> the cart function, and its arguments]; the load
\* effect's setCartItems(JSON.parse(savedCart)) is [op |-> "load", items].

\* The state a queued call's updater returns on prevItems.
Apply(call, prevItems) ==
    CASE call.op = "addToCart"      -> addToCart(prevItems, call.item)
      [] call.op = "removeFromCart" -> removeFromCart(prevItems, call.itemId)
      [] call.op = "updateQuantity" ->
            updateQuantity(prevItems, call.itemId, call.quantity)
      [] call.op = "clearCart"      -> clearCart(prevItems)
      [] call.op = "load"           -> call.items

\* Whether the updater returns prevItems itself (the same array) and not a new
\* one: only removeFromCart of an item the cart does not have.
ReturnsPrevItems(call, prevItems) ==
    /\ \/ call.op = "removeFromCart"
       \/ call.op = "updateQuantity" /\ call.quantity <= 0
    /\ ~InCart(prevItems, call.itemId)

\* The queued updaters called in order on prevItems: the state after them
\* and whether it is a new array.
RECURSIVE Reduce(_, _)
Reduce(queue, prevItems) ==
    IF queue = <<>> THEN [items |-> prevItems, new |-> FALSE]
    ELSE LET rest == Reduce(Tail(queue), Apply(Head(queue), prevItems))
         IN  [items |-> rest.items,
              new   |-> rest.new \/ ~ReturnsPrevItems(Head(queue), prevItems)]

\* cartSubtotal * TAX_RATE and cartSubtotal + cartTax.
cartTax(items) == (cartSubtotal(items) * TAX_RATE) \div 100

cartTotal(items) == cartSubtotal(items) + cartTax(items)

\* JSON.stringify of the cart and JSON.parse of the text it gives.  A JSON
\* text is written as the value it denotes, every member with its JSON type.
NumberKeys == {"id", "price", "quantity", "subtotal", "tax", "total"}

ToJSON(object) ==
    [k \in DOMAIN object |->
        IF k \in NumberKeys THEN Num(object[k]) ELSE Str(object[k])]

JSONstringify(items) == Arr([i \in 1..Len(items) |-> ToJSON(items[i])])

\* The parsed lines come back without their quantity.
JSONparse_DropsQuantity(text) ==
    [i \in 1..Len(text.v) |->
        [k \in DOMAIN text.v[i] \ {"quantity"} |-> text.v[i][k].v]]

JSONparse(text) ==
    [i \in 1..Len(text.v) |-> [k \in DOMAIN text.v[i] |-> text.v[i][k].v]]

\* The load effect: if (savedCart) setCartItems(JSON.parse(savedCart)).
LoadEffect(savedCart) ==
    IF savedCart = None THEN <<>>
    ELSE <<[op |-> "load", items |-> JSONparse(savedCart[1])]>>

\* The save effect writes nothing.
SaveEffect_Skipped(items, stored) == stored

\* The save effect: localStorage.setItem(CART_STORAGE_KEY, JSON.stringify(cartItems)).
SaveEffect(items, stored) == Some(JSONstringify(items))

\* The menu items whose buttons are clicked: the first two the menu page
\* shows (GET /api/menu).
MenuItemsShown == {storage.menuItems[1].v, storage.menuItems[2].v}

ItemIdsShown == {item.id : item \in MenuItemsShown}

(* React.  The effects of a render run after it in the order of their     *)
(* declaration.  A setCartItems call made in a click handler is rendered,  *)
(* and the effects of that render run, before the handler's event is over  *)
(* (after the effects still to run and together with the calls still       *)
(* queued); one made in an effect or in the callback of a request waits in *)
(* the queue for a render of its own.                                      *)

\* The states of the provider and what it has stored.
Provider ==
    [cartItems |-> cartItems, localStorage |-> localStorage,
     updates |-> updates, effects |-> effects]

\* The save effect runs before the load effect.
RunEffects_SaveFirst(p) ==
    LET stored == IF "save" \in p.effects THEN SaveEffect(p.cartItems, p.localStorage)
                  ELSE p.localStorage
    IN  [p EXCEPT !.updates = IF "load" \in p.effects THEN @ \o LoadEffect(stored)
                              ELSE @,
                  !.localStorage = stored,
                  !.effects = {}]

\* The effects still to run: the load effect reads localStorage and queues
\* what it read, then the save effect writes the cartItems of its render.
RunEffects(p) ==
    [p EXCEPT !.updates = IF "load" \in p.effects THEN @ \o LoadEffect(p.localStorage)
                          ELSE @,
              !.localStorage = IF "save" \in p.effects
                               THEN SaveEffect(p.cartItems, p.localStorage) ELSE @,
              !.effects = {}]

\* The next render: the queued updaters give the new cartItems; the save
\* effect is to run when the array is a new one ([cartItems] changed).
Rerender(p) ==
    LET next == Reduce(p.updates, p.cartItems)
    IN  [p EXCEPT !.cartItems = next.items,
                  !.updates = <<>>,
                  !.effects = IF next.new THEN {"save"} ELSE {}]

\* A cart function called in a click handler.
Clicked(p, call) ==
    LET flushed == RunEffects(p)
    IN  RunEffects(Rerender([flushed EXCEPT !.updates = Append(@, call)]))

\* The cart once React has rendered what is queued.
RenderedCart == Reduce(updates, cartItems).items

WithinQuantity(items) == \A i \in 1..Len(items) : items[i].quantity <= MaxQuantity

\* createRoot(...).render: the first render of the provider and the page,
\* with the initial states; both effects of the provider are to run.
Mount ==
    /\ ~mounted
    /\ mounted' = TRUE
    /\ cartItems' = <<>>
    /\ updates' = <<>>
    /\ effects' = {"load", "save"}
    /\ sinceMount' = [saved |-> localStorage, operated |-> FALSE]
    /\ orderPage' = [orderId |-> None, isConfirmationVisible |-> FALSE]
    /\ orderMutation' = [status |-> "idle"]
    /\ UNCHANGED <<server, localStorage, wire>>

FlushPassiveEffects ==
    /\ mounted
    /\ effects # {}
    /\ cartItems' = RunEffects(Provider).cartItems
    /\ localStorage' = RunEffects(Provider).localStorage
    /\ updates' = RunEffects(Provider).updates
    /\ effects' = RunEffects(Provider).effects
    /\ UNCHANGED <<server, mounted, sinceMount, orderPage, orderMutation, wire>>

Render ==
    /\ mounted
    /\ effects = {}
    /\ updates # <<>>
    /\ cartItems' = Rerender(Provider).cartItems
    /\ localStorage' = Rerender(Provider).localStorage
    /\ updates' = Rerender(Provider).updates
    /\ effects' = Rerender(Provider).effects
    /\ UNCHANGED <<server, mounted, sinceMount, orderPage, orderMutation, wire>>

\* A click on a button that calls a cart function.  What localStorage held
\* at the mount is remembered until the first of them.
Click(call) ==
    LET after == Clicked(Provider, call)
    IN  /\ mounted
        /\ WithinQuantity(after.cartItems)
        /\ cartItems' = after.cartItems
        /\ localStorage' = after.localStorage
        /\ updates' = after.updates
        /\ effects' = after.effects
        /\ sinceMount' = [saved |-> None, operated |-> TRUE]
        /\ UNCHANGED <<server, mounted, orderPage, orderMutation, wire>>

CallAddToCart ==
    \E item \in MenuItemsShown : Click([op |-> "addToCart", item |-> item])

CallRemoveFromCart ==
    \E itemId \in ItemIdsShown : Click([op |-> "removeFromCart", itemId |-> itemId])

CallUpdateQuantity ==
    \E itemId \in ItemIdsShown, quantity \in -1..MaxQuantity :
        Click([op |-> "updateQuantity", itemId |-> itemId,
               quantity |-> quantity])

CallClearCart == Click([op |-> "clearCart"])

\* The tab is closed or reloaded: the React states are gone, localStorage stays.
Close ==
    /\ mounted
    /\ mounted' = FALSE
    /\ cartItems' = <<>>
    /\ updates' = <<>>
    /\ effects' = {}
    /\ sinceMount' = [saved |-> None, operated |-> FALSE]
    /\ orderPage' = [orderId |-> None, isConfirmationVisible |-> FALSE]
    /\ orderMutation' = [status |-> "idle"]
    /\ wire' = <<>>
    /\ UNCHANGED <<server, localStorage>>

CartNext ==
    \/ Mount
    \/ FlushPassiveEffects
    \/ Render
    \/ CallAddToCart
    \/ CallRemoveFromCart
    \/ CallUpdateQuantity
    \/ CallClearCart
    \/ Close

CartSpec == Init /\ [][CartNext]_vars

\* React runs the effects of every render it commits and renders every
\* update it has queued.
CartFairSpec ==
    CartSpec /\ WF_vars(FlushPassiveEffects) /\ WF_vars(Render)

-----------------------------------------------------------------------------
(* The order page (OrderPage): the form, orderMutation and its callbacks.  *)

\* What the form hands to onSubmit: values orderDetailsSchema accepts.
OrderForms ==
    {[customerName |-> "Bob", customerPhone |-> "1234567890",
      specialInstructions |-> "", orderType |-> "pickup"]}

\* orderData, as JSON.stringify puts it in the request.
orderData(items, data) ==
    [orderDetails |-> ToJSON(Spread(data, [subtotal |-> cartSubtotal(items),
                                            tax |-> cartTax(items),
                                            total |-> cartTotal(items)])),
     cartItems |-> JSONstringify(items)]

\* mutationFn: throws on an empty cart before it requests anything (None),
\* else it sends orderData.
mutationFn(items, data) ==
    IF Len(items) = 0 THEN None ELSE Some(orderData(items, data))

\* onSubmit: with an empty cart a toast and nothing else; else
\* orderMutation.mutate(data).
onSubmit(items, data) ==
    IF Len(items) = 0 THEN None ELSE mutationFn(items, data)

\* apiRequest: it hands back the response when the status is a success one
\* and throws otherwise.
apiRequest(res) == res.status >= 200 /\ res.status < 300

\* The callback without clearCart().
onSuccess_KeepsCart(data, queue) ==
    [orderPage |-> [orderId |-> Some(data.id), isConfirmationVisible |-> TRUE],
     updates   |-> queue]

\* onSuccess: setOrderId(data.id); setIsConfirmationVisible(true); clearCart().
onSuccess(data, queue) ==
    [orderPage |-> [orderId |-> Some(data.id), isConfirmationVisible |-> TRUE],
     updates   |-> Append(queue, [op |-> "clearCart"])]

\* onError: a toast; no state of the page or the cart is set.
onError(page, queue) == [orderPage |-> page, updates |-> queue]

IsRequest(w) == Len(w) = 1 /\ "request" \in DOMAIN w[1]

IsResponse(w) == Len(w) = 1 /\ "response" \in DOMAIN w[1]

\* The form is submitted (the button is disabled while the mutation is
\* pending): the request leaves unless the cart is empty.
SubmitOrder ==
    \E data \in OrderForms :
        /\ mounted
        /\ orderMutation.status # "pending"
        /\ onSubmit(cartItems, data) # None
        /\ wire' = <<[request |-> onSubmit(cartItems, data)[1]]>>
        /\ orderMutation' = [status |-> "pending"]
        /\ UNCHANGED <<server, cartItems, localStorage, mounted, updates, effects,
                       sinceMount, orderPage>>

\* The server handles the request of the page: POST /api/orders.
ServePostOrders ==
    \E caller \in Callers :
      \E createdAt \in {clock, clock + 1} :
        LET body     == wire[1].request
            out      == PostOrders(storage, caller, body, createdAt)
            created  == out.res.status = 201
            newItems == SubSeq(out.store.orderItems, Len(storage.orderItems) + 1,
                               Len(out.store.orderItems))
        IN  /\ IsRequest(wire)
            /\ created \/ createdAt = clock
            /\ Len(storage.orders) < MaxOrders \/ ~created
            /\ storage' = out.store
            /\ clock' = IF created THEN createdAt ELSE clock
            /\ placed' = IF created
                         THEN Bind(placed, out.res.body.id,
                                   [by |-> caller[1].id,
                                    details |-> OrderDetailsOf(body),
                                    items |-> ValidatedOrderItems(body),
                                    order |-> out.res.body])
                         ELSE placed
            /\ issued' = IF created
                         THEN [issued EXCEPT !.orders = Append(@, out.res.body.id),
                                             !.orderItems = @ \o IdsOf(newItems)]
                         ELSE issued
            /\ wire' = <<[response |-> out.res]>>
            /\ UNCHANGED <<adminPatched, deletedMenu, pending, cartItems, localStorage,
                           mounted, updates, effects, sinceMount, orderPage,
                           orderMutation>>

\* fetch rejects (the request or the response is lost): onError.
NetworkFails ==
    /\ wire # <<>>
    /\ orderMutation.status = "pending"
    /\ wire' = <<>>
    /\ orderMutation' = [status |-> "error"]
    /\ orderPage' = onError(orderPage, updates).orderPage
    /\ updates' = onError(orderPage, updates).updates
    /\ UNCHANGED <<server, cartItems, localStorage, mounted, effects, sinceMount>>

\* The response arrives: onSuccess with the order it carries, or onError.
ReceiveResponse ==
    /\ IsResponse(wire)
    /\ orderMutation.status = "pending"
    /\ LET res == wire[1].response
           then == IF apiRequest(res) THEN onSuccess(res.body, updates)
                   ELSE onError(orderPage, updates)
       IN  /\ orderMutation' = IF apiRequest(res)
                               THEN [status |-> "success"]
                               ELSE [status |-> "error"]
           /\ orderPage' = then.orderPage
           /\ updates' = then.updates
    /\ wire' = <<>>
    /\ UNCHANGED <<server, cartItems, localStorage, mounted, effects, sinceMount>>

\* handleCloseConfirmation: setIsConfirmationVisible(false).
handleCloseConfirmation ==
    /\ mounted
    /\ orderPage.isConfirmationVisible
    /\ orderPage' = [orderPage EXCEPT !.isConfirmationVisible = FALSE]
    /\ UNCHANGED <<server, cartItems, localStorage, mounted, updates, effects,
                   sinceMount, orderMutation, wire>>

\* The customer of the order page adds an item the cart does not have yet
\* (the quantities are the matter of the cart's own specification).
CallAddNewItem ==
    \E item \in MenuItemsShown :
        /\ ~InCart(RenderedCart, item.id)
        /\ Click([op |-> "addToCart", item |-> item])

PlacementNext ==
    \/ Mount
    \/ FlushPassiveEffects
    \/ Render
    \/ CallAddNewItem
    \/ CallRemoveFromCart
    \/ SubmitOrder
    \/ ServePostOrders
    \/ NetworkFails
    \/ ReceiveResponse
    \/ handleCloseConfirmation

PlacementSpec == Init /\ [][PlacementNext]_vars

-----------------------------------------------------------------------------
(* What the claims speak of.                                               *)

StoredOrders == {storage.orders[i].v : i \in 1..Len(storage.orders)}

StoredOrderItems == {storage.orderItems[i].v : i \in 1..Len(storage.orderItems)}

StoredMenuItems == {storage.menuItems[i].v : i \in 1..Len(storage.menuItems)}

Range(seq) == {seq[i] : i \in 1..Len(seq)}

\* The status of an order: None while the order has no status field.
StatusOf(order) == IF "status" \in DOMAIN order THEN Some(order.status) ELSE None

NonAdmins == {u \in StoredUsers : ~UserIsAdmin(u)}

Admins == {u \in StoredUsers : UserIsAdmin(u)}

StrictlyIncreasing(seq) == \A i, j \in 1..Len(seq) : i < j => seq[i] < seq[j]

CompletedBody == [status |-> Str("completed")]

-----------------------------------------------------------------------------
(* C1  GET /api/orders/:id on an existing order: a non-admin who is not    *)
(* the owner gets 403 and no order data, the owner gets 200 with the order *)
(* and its items, an admin gets 200 for every existing order.              *)
C1_OrderDetailAccess ==
    \A order \in StoredOrders : \A user \in StoredUsers :
        LET r == GetOrderById(storage, Some(user), ToChars(order.id)).res
        IN  IF UserIsAdmin(user) \/ order.userId = user.id
            THEN /\ r.status = 200
                 /\ DOMAIN r.body = {"order", "items"}
                 /\ r.body.order = order
                 /\ Range(r.body.items) = {it \in StoredOrderItems : it.orderId = order.id}
            ELSE /\ r.status = 403
                 /\ r.body = Message("Access denied")

\* Some non-admin has an order of their own and there is an order of someone else.
C1_Witness ==
    \E user \in NonAdmins : \E own, other \in StoredOrders :
        /\ own.userId = user.id
        /\ other.userId # user.id
        /\ GetOrderById(storage, Some(user), ToChars(own.id)).res.status = 200
        /\ GetOrderById(storage, Some(user), ToChars(other.id)).res.status = 403

(* C2  Every order stored through POST /api/orders has the userId of the   *)
(* caller of that request, whatever userId the client put in orderDetails. *)
C2_OwnerIsCaller ==
    \A order \in StoredOrders :
        /\ order.id \in DOMAIN placed
        /\ order.userId = placed[order.id].by

\* An order whose client named another user as the owner.
C2_Witness ==
    \E order \in StoredOrders :
        /\ order.id \in DOMAIN placed
        /\ "userId" \in DOMAIN placed[order.id].details
        /\ placed[order.id].details.userId.v # placed[order.id].by
        /\ order.userId = placed[order.id].by

(* C3  GET /api/orders gives an admin every stored order and a non-admin   *)
(* exactly the orders whose userId is the caller's id.                     *)
C3_OrderListing ==
    \A user \in StoredUsers :
        LET r == GetOrders(storage, Some(user)).res
            expected == IF UserIsAdmin(user)
                        THEN StoredOrders
                        ELSE {o \in StoredOrders : o.userId = user.id}
        IN  /\ r.status = 200
            /\ Range(r.body) = expected
            /\ Len(r.body) = Cardinality(expected)

\* A non-admin with an order of their own while another user has one too, one
\* of them with its status updated.
C3_Witness ==
    \E user \in NonAdmins :
        /\ Len(GetOrders(storage, Some(user)).res.body) = 1
        /\ \E a \in Admins : Len(GetOrders(storage, Some(a)).res.body) = 2
        /\ adminPatched # {}

(* C4  PATCH /api/orders/:id/status with "completed" on an existing order: *)
(* an admin gets the order back with status "completed" (and it is stored  *)
(* so), an authenticated non-admin gets 403 and the stored order keeps its *)
(* status; an order's status differs from its value at creation only if an *)
(* admin's PATCH set it.                                                   *)
C4_StatusUpdateAdminOnly ==
    /\ \A order \in StoredOrders : \A user \in StoredUsers :
        LET out == PatchOrderStatus(storage, Some(user), ToChars(order.id), CompletedBody)
        IN  IF UserIsAdmin(user)
            THEN /\ out.res.status = 200
                 /\ out.res.body = Spread(order, [status |-> "completed"])
                 /\ getOrderWithItems(out.store, order.id)[1].order.status = "completed"
            ELSE /\ out.res.status = 403
                 /\ out.store = storage
    /\ \A order \in StoredOrders :
        StatusOf(order) # StatusOf(placed[order.id].order) => order.id \in adminPatched

\* An admin has completed one order, another still has its status of creation,
\* and a non-admin is there to be refused.
C4_Witness ==
    /\ NonAdmins # {}
    /\ \E done, fresh \in StoredOrders :
        /\ done.id \in adminPatched
        /\ StatusOf(done) = Some("completed")
        /\ fresh.id \notin adminPatched
        /\ StatusOf(fresh) = StatusOf(placed[fresh.id].order)

(* C5  A POST /api/menu, PUT /api/menu/:id or DELETE /api/menu/:id from a   *)
(* caller who is not an admin (logged in or not) is rejected and leaves    *)
(* the menu items and the menu id counter as they were.                    *)
C5_MenuWritesAdminOnly ==
    \A caller \in Callers :
        (caller = None \/ ~UserIsAdmin(caller[1])) =>
            /\ \A body \in MenuBodies :
                LET out == PostMenu(storage, caller, body)
                IN  out.res.status \in {401, 403} /\ out.store = storage
            /\ \A idParam \in MenuIdParams :
                /\ \A body \in MenuPatches :
                    LET out == PutMenu(storage, caller, idParam, body)
                    IN  out.res.status \in {401, 403} /\ out.store = storage
                /\ LET out == DeleteMenu(storage, caller, idParam)
                   IN  out.res.status \in {401, 403} /\ out.store = storage

\* A non-admin is registered and the menu holds an item that a PUT or DELETE
\* of theirs addresses, after the admin has created and deleted items.
C5_Witness ==
    /\ NonAdmins # {}
    /\ Len(issued.menuItems) > Len(SeedMenuItems)
    /\ DOMAIN deletedMenu # {}
    /\ \E item \in StoredMenuItems : ToChars(item.id) \in MenuIdParams

\* The three ways a cart is no cart, under details that are in order.
EmptyCartBodies ==
    {[orderDetails |-> ScenarioDetails],
     [orderDetails |-> ScenarioDetails, cartItems |-> Str("Tea")],
     [orderDetails |-> ScenarioDetails, cartItems |-> Arr(<<>>)]}

RejectsEmptyCart(caller, body) ==
    LET out == PostOrders(storage, caller, body, clock)
    IN  /\ out.res.status = 400
        /\ out.res.body = Message("Cart cannot be empty")
        /\ out.store = storage

EveryOrderHasItems ==
    \A order \in StoredOrders : \E it \in StoredOrderItems : it.orderId = order.id

(* C6, as stated  POST /api/orders whose cartItems is missing, not an      *)
(* array or empty returns 400 "Cart cannot be empty" and creates nothing,  *)
(* whoever calls; every stored order has one or more order items.          *)
C6_Original ==
    /\ \A caller \in Callers : \A body \in EmptyCartBodies : RejectsEmptyCart(caller, body)
    /\ EveryOrderHasItems

(* C6, amended  The same for a caller who is logged in (the session check  *)
(* comes first: without a session the answer is 401).                      *)
C6_EmptyCartRejected ==
    /\ \A user \in StoredUsers : \A body \in EmptyCartBodies :
        RejectsEmptyCart(Some(user), body)
    /\ EveryOrderHasItems

\* Orders have been placed, by a non-admin among others.
C6_Witness ==
    /\ \E order \in StoredOrders : \E user \in NonAdmins : order.userId = user.id
    /\ Len(storage.orderItems) > Len(storage.orders)

(* C7  The id createOrder returns is returned by no later createOrder, and *)
(* getOrderWithItems(id).items are the items passed to that call, as many  *)
(* and in that order, each under the order's id, and stay so when later    *)
(* orders are created.                                                     *)
C7_OrderIdsAndItems ==
    /\ \A i, j \in 1..Len(issued.orders) : i # j => issued.orders[i] # issued.orders[j]
    /\ \A id \in DOMAIN placed :
        LET got == getOrderWithItems(storage, id)
        IN  /\ got # None
            /\ Len(got[1].items) = Len(placed[id].items)
            /\ \A k \in 1..Len(got[1].items) :
                got[1].items[k] =
                    Spread(placed[id].items[k], [id |-> got[1].items[k].id, orderId |-> id])

\* Two orders with different numbers of items, the smaller one placed first.
C7_Witness ==
    \E a, b \in DOMAIN placed :
        /\ a < b
        /\ Len(placed[a].items) = 1
        /\ Len(placed[b].items) = 2
        /\ Len(getOrderWithItems(storage, a)[1].items) = 1

(* C8  Once deleteMenuItem(id) has removed a created menu item,            *)
(* getMenuItem(id) is not-found, right after the call and after any later  *)
(* createMenuItem and updateMenuItem calls.                                *)
C8_DeletedStaysDeleted ==
    /\ \A item \in StoredMenuItems :
        LET out == deleteMenuItem(storage, item.id)
        IN  out.ret /\ getMenuItem(out.store, item.id) = None
    /\ \A id \in DOMAIN deletedMenu :
        /\ getMenuItem(storage, id) = None
        /\ \A body \in MenuPatches :
            SchemaAccepts(Partial(insertMenuItemSchema), body) =>
                LET out == updateMenuItem(storage, id,
                                          SchemaParse(Partial(insertMenuItemSchema), body))
                IN  out.ret = None /\ getMenuItem(out.store, id) = None

\* An item was deleted and an item has been created since.
C8_Witness ==
    \E id \in DOMAIN deletedMenu :
        /\ deletedMenu[id] < storage.menuItemIdCounter
        /\ getMenuItem(storage, id) = None

(* C9  For users, menu items, orders and order items, each create call     *)
(* returns an id greater than every id returned before for that type, also *)
(* after deleteMenuItem removed the item with the highest id.              *)
C9_IdsNeverReused ==
    /\ StrictlyIncreasing(issued.users)
    /\ StrictlyIncreasing(issued.menuItems)
    /\ StrictlyIncreasing(issued.orders)
    /\ StrictlyIncreasing(issued.orderItems)

\* The menu item with the highest id was deleted and a menu item created after
\* that; users, orders and order items have been created too.
C9_Witness ==
    /\ \E id \in DOMAIN deletedMenu :
        /\ deletedMenu[id] = id + 1
        /\ deletedMenu[id] < storage.menuItemIdCounter
    /\ Len(issued.users) > 1
    /\ Len(issued.orders) > 1
    /\ Len(issued.orderItems) > 1

(* C10  Every stored order's status is one of new, preparing, ready,       *)
(* completed, also right after POST /api/orders created it.                *)
C10_StatusIsOneOfFour ==
    \A order \in StoredOrders :
        "status" \in DOMAIN order /\ order.status \in ValidStatuses

\* The stored order item at position i is still there after the step, with the
\* name, price and quantity it has.
OrderItemKept(i) ==
    /\ i <= Len(storage'.orderItems)
    /\ storage'.orderItems[i].k = storage.orderItems[i].k
    /\ \A f \in {"name", "price", "quantity"} :
           storage'.orderItems[i].v[f] = storage.orderItems[i].v[f]

(* C11  No updateMenuItem, deleteMenuItem (or any other) call changes the   *)
(* name, price or quantity of an order item that is already stored.        *)
C11_OrderItemsAreSnapshots ==
    [][\A i \in 1..Len(storage.orderItems) : OrderItemKept(i)]_vars

\* An order item whose menu item has since got another name or price, and one
\* whose menu item has since been deleted.
C11_Witness ==
    /\ \E it \in StoredOrderItems : \E item \in StoredMenuItems :
           /\ item.id = it.menuItemId
           /\ item.name # it.name \/ item.price # it.price
    /\ \E it \in StoredOrderItems :
           /\ it.menuItemId \in DOMAIN deletedMenu
           /\ getMenuItem(storage, it.menuItemId) = None

\* The order items in the store under an order's id.
ItemsStoredFor(id) == {it \in StoredOrderItems : it.orderId = id}

(* C12  In every state in which a part of another request can run, each    *)
(* order that getOrderWithItems, getAllOrders or getOrdersByUserId finds   *)
(* has all the items its createOrder was given in the store, and a handler *)
(* that has read an order and is waiting to answer has read all of them.   *)
C12_CreateOrderAtomic ==
    /\ \A id \in DOMAIN placed :
           getOrderWithItems(storage, id) # None =>
               Len(getOrderWithItems(storage, id)[1].items) = Len(placed[id].items)
    /\ \A i \in 1..Len(getAllOrders(storage)) :
           Cardinality(ItemsStoredFor(getAllOrders(storage)[i].id))
               = Len(placed[getAllOrders(storage)[i].id].items)
    /\ \A user \in StoredUsers :
           \A i \in 1..Len(getOrdersByUserId(storage, user.id)) :
               Cardinality(ItemsStoredFor(getOrdersByUserId(storage, user.id)[i].id))
                   = Len(placed[getOrdersByUserId(storage, user.id)[i].id].items)
    /\ \A w \in pending :
           (w.res.op = "GET /api/orders/:id" /\ w.res.status = 200) =>
               Len(w.res.body.items) = Len(placed[w.res.body.order.id].items)

\* A POST /api/orders is waiting for its createOrder of two items while a
\* GET /api/orders/:id that has read that order is waiting too.
C12_Witness ==
    \E post, get \in pending :
        /\ post.res.op = "POST /api/orders"
        /\ post.res.status = 201
        /\ Len(post.items) = 2
        /\ get.res.op = "GET /api/orders/:id"
        /\ get.res.status = 200
        /\ get.res.body.order.id = post.orderId

\* The lists of orders the store hands out: getAllOrders, and getOrdersByUserId
\* for every stored user.
OrderLists ==
    {getAllOrders(storage)} \cup {getOrdersByUserId(storage, user.id) : user \in StoredUsers}

\* Order a was created by a later createOrder call than order b.
CreatedLater(a, b) ==
    \E i, j \in 1..Len(issued.orders) :
        issued.orders[i] = a.id /\ issued.orders[j] = b.id /\ i > j

(* C13, as stated  In getOrdersByUserId and getAllOrders, of any two       *)
(* orders the one created later comes first, also when both have the same  *)
(* createdAt value.                                                        *)
C13_Original ==
    \A list \in OrderLists : \A i, j \in 1..Len(list) :
        i < j => CreatedLater(list[i], list[j])

(* C13, amended  Of any two orders in the result the one with the later    *)
(* createdAt comes first; two orders with the same createdAt value come in *)
(* the order of their creation, the earlier one first.                     *)
C13_NewestFirst ==
    \A list \in OrderLists : \A i, j \in 1..Len(list) :
        i < j =>
            /\ list[i].createdAt >= list[j].createdAt
            /\ list[i].createdAt = list[j].createdAt => CreatedLater(list[j], list[i])

\* Two orders of one user created at different times: the store holds the
\* older one first, the lists give the newer one first.
C13_Witness ==
    \E user \in StoredUsers :
        LET list == getOrdersByUserId(storage, user.id)
        IN  /\ Len(list) = 2
            /\ list[1].createdAt > list[2].createdAt
            /\ MapValues(storage.orders) = <<list[2], list[1]>>
            /\ getAllOrders(storage) = list

\* The user ids asked for: those handed out, and one on either side of them.
UserIdsAsked == 0..storage.userIdCounter

(* C14  getOrdersByUserId(u) returns no order whose userId differs from u, *)
(* for every user id u.                                                    *)
C14_OnlyOwnOrders ==
    \A u \in UserIdsAsked :
        \A i \in 1..Len(getOrdersByUserId(storage, u)) :
            getOrdersByUserId(storage, u)[i].userId = u

\* Two users have an order each, and each is handed their own one only.
C14_Witness ==
    \E u, v \in UserIdsAsked :
        /\ u # v
        /\ Len(getOrdersByUserId(storage, u)) = 1
        /\ Len(getOrdersByUserId(storage, v)) = 1
        /\ Len(storage.orders) = 2

\* The responses to every request a caller can make of the endpoints that
\* ask for a session (isAuthenticated) and of those that ask for an admin
\* (isAdmin).
SessionResponses(caller) ==
    {PostOrders(storage, caller, body, clock).res : body \in OrderBodies}
    \cup {GetOrders(storage, caller).res}
    \cup {GetOrderById(storage, caller, idParam).res : idParam \in OrderIdParams}

AdminResponses(caller) ==
    {PostMenu(storage, caller, body).res : body \in MenuBodies}
    \cup {PutMenu(storage, caller, idParam, body).res :
              idParam \in MenuIdParams, body \in MenuPatches}
    \cup {DeleteMenu(storage, caller, idParam).res : idParam \in MenuIdParams}
    \cup {PatchOrderStatus(storage, caller, idParam, body).res :
              idParam \in OrderIdParams, body \in StatusBodies}

(* C15  A caller without a session gets 401 from every endpoint that asks  *)
(* for authentication, the admin-only ones included; 403 goes only to      *)
(* callers with a session.                                                 *)
C15_UnauthenticatedGets401 ==
    /\ \A res \in SessionResponses(None) \cup AdminResponses(None) : res.status = 401
    /\ \A caller \in Callers :
           \A res \in SessionResponses(caller) \cup AdminResponses(caller) :
               res.status = 403 => IsAuthenticated(caller)

(* C16  Every stored order has subtotal = the sum of price x quantity over *)
(* its order items, tax = 7% of subtotal and total = subtotal + tax,       *)
(* whatever orderDetails and cartItems the client of POST /api/orders      *)
(* sent (money in hundredths; tax = 7% of subtotal is 100 tax = 7 subtotal).*)
C16_TotalsConsistent ==
    \A order \in StoredOrders :
        LET items == getOrderWithItems(storage, order.id)[1].items
        IN  /\ order.subtotal = cartSubtotal(items)
            /\ order.tax * 100 = order.subtotal * TAX_RATE
            /\ order.total = order.subtotal + order.tax

\* The request of the scenario: one cart line of Tea, 1.5 each, quantity 2,
\* under subtotal 3.0, tax 0.21, total 3.21.
ScenarioBody == [orderDetails |-> ScenarioDetails, cartItems |-> Arr(<<TeaLine>>)]

\* The scenario played by a user from the present state: the response to the
\* POST, and the response to the user's GET /api/orders/:id for the new order.
ScenarioRun(user) ==
    LET post == PostOrders(storage, Some(user), ScenarioBody, clock)
        get  == IF post.res.status = 201
                THEN GetOrderById(post.store, Some(user), ToChars(post.res.body.id)).res
                ELSE post.res
    IN  [post |-> post.res, get |-> get]

ScenarioAnswers(run) ==
    /\ run.post.status = 201
    /\ run.post.body.total = 321
    /\ run.get.status = 200
    /\ run.get.body.order = run.post.body
    /\ cartSubtotal(run.get.body.items) = 300

(* C17, as stated  The scenario's POST is answered 201 with an order of    *)
(* total 3.21, and GET /api/orders/:id for it returns 2 items summing to   *)
(* subtotal 3.0.                                                           *)
C17_Original ==
    \A user \in StoredUsers :
        LET run == ScenarioRun(user)
        IN  /\ ScenarioAnswers(run)
            /\ Len(run.get.body.items) = 2

(* C17, amended  ... and GET /api/orders/:id for it returns one item, the  *)
(* Tea line with price 1.5 and quantity 2, summing to subtotal 3.0.        *)
C17_ScenarioOrder ==
    \A user \in StoredUsers :
        LET run == ScenarioRun(user)
        IN  /\ ScenarioAnswers(run)
            /\ Len(run.get.body.items) = 1
            /\ run.get.body.items[1].name = "Tea"
            /\ run.get.body.items[1].price = 150
            /\ run.get.body.items[1].quantity = 2

\* A registered user has placed the scenario's order after another order, and
\* their GET /api/orders/:id returns it with its one line.
C17_Witness ==
    \E user \in NonAdmins : \E id \in DOMAIN placed :
        /\ id > 1
        /\ placed[id].by = user.id
        /\ placed[id].details = ScenarioDetails
        /\ placed[id].order.total = 321
        /\ GetOrderById(storage, Some(user), ToChars(id)).res.status = 200
        /\ Len(GetOrderById(storage, Some(user), ToChars(id)).res.body.items) = 1

\* The entries of the orders map whose order has the given id.
OrdersWithId(id) == {i \in 1..Len(storage.orders) : storage.orders[i].v.id = id}

(* C18  Every stored order item's orderId is the id of exactly one stored  *)
(* order, and none has the orderId 0 the router hands to createOrder.      *)
C18_OrderItemsBelongToOrders ==
    \A it \in StoredOrderItems :
        /\ it.orderId # 0
        /\ Cardinality(OrdersWithId(it.orderId)) = 1

\* Two orders are stored, and the items createOrder was given for the second
\* came with orderId 0.
C18_Witness ==
    /\ Len(storage.orders) = 2
    /\ \E id \in DOMAIN placed :
           /\ id = 2
           /\ \A k \in 1..Len(placed[id].items) : placed[id].items[k].orderId = 0
           /\ \E it \in StoredOrderItems : it.orderId = id

\* The stored users whose username equals the given one ignoring case.
UsersNamed(username) ==
    {user \in StoredUsers : toLowerCase(user.username) = toLowerCase(username)}

(* C19  After any sequence of createUser calls no two stored users have    *)
(* usernames that are equal ignoring case: getUserByUsername(name) stands  *)
(* for at most one user.                                                   *)
C19_UsernamesUnique ==
    \A user \in StoredUsers :
        /\ Cardinality(UsersNamed(user.username)) = 1
        /\ getUserByUsername(storage, user.username) = Some(user)

\* What GET /api/menu without a category answers from store s.
MenuListed(s) == Range(GetMenu(s, None).res.body)

\* Right after an admin's POST /api/menu is answered 201 with id N, the list
\* has an item with id N and the price sent.
PostedItemIsListed ==
    \A admin \in Admins : \A body \in MenuBodies :
        LET out == PostMenu(storage, Some(admin), body)
        IN  out.res.status = 201 =>
                \E item \in MenuListed(out.store) :
                    item.id = out.res.body.id /\ item.price = body.price.v

\* An item whose id was handed out is listed as long as no DELETE of that id
\* has succeeded.
ListedUntilDeleted ==
    \A n \in 1..Len(issued.menuItems) :
        issued.menuItems[n] \notin DOMAIN deletedMenu =>
            \E item \in MenuListed(storage) : item.id = issued.menuItems[n]

\* Some PUT /api/menu/:id, answered 200, makes this step.
StepIsPut ==
    \E caller \in Callers, idParam \in MenuIdParams, body \in MenuPatches :
        /\ PutMenu(storage, caller, idParam, body).res.status = 200
        /\ PutMenu(storage, caller, idParam, body).store = storage'

\* A listed item that is still listed after the step has its price, unless the
\* step is a PUT.
PriceKept ==
    \A item \in MenuListed(storage) : \A after \in MenuListed(storage') :
        (after.id = item.id /\ after.price # item.price) => StepIsPut

(* C20  After an admin's POST /api/menu with a valid body is answered 201  *)
(* with id N, GET /api/menu (no category) has an item with id N and the    *)
(* price sent, and goes on having an item with id N (with that price,      *)
(* while no PUT changes it) until a DELETE of id N succeeds.               *)
C20_PostedItemStaysListed ==
    /\ [](PostedItemIsListed /\ ListedUntilDeleted)
    /\ [][PriceKept]_vars

\* An item made by a POST is listed with the price sent, after a later POST
\* made another item and a DELETE of that one succeeded.
C20_Witness ==
    \E n \in (Len(SeedMenuItems) + 1)..Len(issued.menuItems) :
        /\ \E item \in MenuListed(storage) :
               item.id = issued.menuItems[n] /\ item.price = TeaItem.price.v
        /\ \E d \in DOMAIN deletedMenu :
               /\ d > issued.menuItems[n]
               /\ \A item \in MenuListed(storage) : item.id # d

(* C21  From whatever status an order has, an admin's PATCH with any of    *)
(* new, preparing, ready, completed is answered 200 and stores that status *)
(* (a step back from completed too); an admin's PATCH whose status is      *)
(* missing, not a string or outside the four is answered 400 and leaves    *)
(* the store, the order's status with it, as it was.                       *)
C21_StatusTransitionsUnconstrained ==
    \A order \in StoredOrders : \A admin \in Admins :
        /\ \A status \in ValidStatuses :
               LET out == PatchOrderStatus(storage, Some(admin), ToChars(order.id),
                                           StatusBody(status))
               IN  /\ out.res.status = 200
                   /\ out.res.body = Spread(order, [status |-> status])
                   /\ MapGet(out.store.orders, order.id) = Some(out.res.body)
        /\ \A body \in RefusedStatusBodies :
               LET out == PatchOrderStatus(storage, Some(admin), ToChars(order.id), body)
               IN  /\ out.res.status = 400
                   /\ out.store = storage

\* An admin's PATCHes have completed one order and set another to new, and the
\* admin's PATCH of the completed one back to new is answered 200.
C21_Witness ==
    \E done, again \in StoredOrders : \E admin \in Admins :
        /\ StatusOf(done) = Some("completed")
        /\ StatusOf(again) = Some("new")
        /\ {done.id, again.id} \subseteq adminPatched
        /\ PatchOrderStatus(storage, Some(admin), ToChars(done.id),
                            StatusBody("new")).res.status = 200

\* Requests with a malformed id or with fields missing or of the wrong type,
\* by endpoint: what each handler answers and the store it leaves.
NotAnId == <<"x">>

MalformedOrderBodies ==
    EmptyCartBodies \cup
    {[orderDetails |-> [customerName |-> Str("A")], cartItems |-> Arr(<<TeaLine>>)],
     [orderDetails |-> ScenarioDetails, cartItems |-> Arr(<<TeaLine, BadLine>>)]}

MalformedMenuBodies == {body \in MenuBodies : ~SchemaAccepts(insertMenuItemSchema, body)}

MalformedMenuPatches ==
    {body \in MenuPatches : ~SchemaAccepts(Partial(insertMenuItemSchema), body)}

\* The endpoints behind isAuthenticated answer every malformed request of the
\* caller with the given status.
MalformedToSession(caller, status) ==
    /\ \A body \in MalformedOrderBodies :
           PostOrders(storage, caller, body, clock).res.status = status
    /\ GetOrderById(storage, caller, NotAnId).res.status = status

\* The endpoints behind isAdmin answer every malformed request of the caller
\* with the given status.
MalformedToAdmin(caller, status) ==
    /\ \A body \in MalformedMenuBodies :
           PostMenu(storage, caller, body).res.status = status
    /\ \A body \in MenuPatches :
           PutMenu(storage, caller, NotAnId, body).res.status = status
    /\ \A idParam \in MenuIdParams : \A body \in MalformedMenuPatches :
           PutMenu(storage, caller, idParam, body).res.status = status
    /\ DeleteMenu(storage, caller, NotAnId).res.status = status
    /\ \A body \in StatusBodies :
           PatchOrderStatus(storage, caller, NotAnId, body).res.status = status
    /\ \A idParam \in OrderIdParams : \A body \in RefusedStatusBodies :
           PatchOrderStatus(storage, caller, idParam, body).res.status = status

\* A request that is refused leaves the store as it was.
Refused(out) == out.res.status \in {400, 401, 403, 404} => out.store = storage

RefusedLeavesStore ==
    \A caller \in Callers :
        /\ \A body \in OrderBodies : Refused(PostOrders(storage, caller, body, clock))
        /\ \A idParam \in OrderIdParams :
               /\ Refused(GetOrderById(storage, caller, idParam))
               /\ \A body \in StatusBodies :
                      Refused(PatchOrderStatus(storage, caller, idParam, body))
        /\ \A body \in MenuBodies : Refused(PostMenu(storage, caller, body))
        /\ \A idParam \in MenuIdParams :
               /\ Refused(DeleteMenu(storage, caller, idParam))
               /\ \A body \in MenuPatches : Refused(PutMenu(storage, caller, idParam, body))

(* C22, as stated  A request with a malformed id or missing fields is      *)
(* answered 400 whoever the caller is (the shape is looked at before the   *)
(* caller's role), and a refused request performs no store operation.      *)
C22_Original ==
    /\ \A caller \in Callers :
           MalformedToSession(caller, 400) /\ MalformedToAdmin(caller, 400)
    /\ RefusedLeavesStore

(* C22, amended  The session or role check of the middleware comes first,  *)
(* then the shape, then the store: a request with a malformed id or        *)
(* missing fields is answered 401 by the session endpoints when the caller *)
(* has no session, 403 by the admin endpoints when the caller is no admin, *)
(* and 400 otherwise; a refused request leaves the store as it was.        *)
C22_ChecksInOrder ==
    /\ \A caller \in Callers :
           /\ MalformedToSession(caller, IF IsAuthenticated(caller) THEN 400 ELSE 401)
           /\ MalformedToAdmin(caller, IF PassesIsAdmin(caller) THEN 400 ELSE 403)
    /\ RefusedLeavesStore

\* A user who is no admin is registered and orders are stored: their malformed
\* PUT is answered 403 and the admin's 400, their malformed GET of an order 400.
C22_Witness ==
    \E user \in NonAdmins : \E admin \in Admins :
        /\ Len(storage.orders) > 0
        /\ PutMenu(storage, Some(user), NotAnId, [price |-> Num(175)]).res.status = 403
        /\ PutMenu(storage, Some(admin), NotAnId, [price |-> Num(175)]).res.status = 400
        /\ GetOrderById(storage, Some(user), NotAnId).res.status = 400
        /\ GetOrderById(storage, None, NotAnId).res.status = 401

\* Record r without its status field.
WithoutStatus(r) == [f \in DOMAIN r \ {"status"} |-> r[f]]

\* updateOrderStatus on a stored order, with any status (the store does not
\* look at the value): the order gets the status at its place in the map, and
\* nothing else in the store changes.
StatusUpdateTouchesStatusOnly ==
    \A i \in 1..Len(storage.orders) : \A status \in ValidStatuses \cup {"cancelled"} :
        LET order == storage.orders[i].v
            out   == updateOrderStatus(storage, order.id, status)
        IN  /\ out.ret = Some(Spread(order, [status |-> status]))
            /\ WithoutStatus(out.ret[1]) = WithoutStatus(order)
            /\ out.store = [storage EXCEPT !.orders[i].v = out.ret[1]]

\* The menu methods leave users, orders and order items as they are.
MenuCallsKeepOrders ==
    \A id \in 1..storage.menuItemIdCounter :
        \A s \in {createMenuItem(storage, SchemaParse(insertMenuItemSchema, TeaItem)).store,
                  updateMenuItem(storage, id, [price |-> 175]).store,
                  deleteMenuItem(storage, id).store} :
            /\ s.users = storage.users
            /\ s.orders = storage.orders
            /\ s.orderItems = storage.orderItems

\* After the step every stored order is at its place with every field but the
\* status as it was, and every order item and every user is as it was.
OrdersUsersKept ==
    /\ Len(storage'.orders) >= Len(storage.orders)
    /\ Len(storage'.orderItems) >= Len(storage.orderItems)
    /\ Len(storage'.users) >= Len(storage.users)
    /\ \A i \in 1..Len(storage.orders) :
           /\ storage'.orders[i].k = storage.orders[i].k
           /\ WithoutStatus(storage'.orders[i].v) = WithoutStatus(storage.orders[i].v)
    /\ \A i \in 1..Len(storage.orderItems) : storage'.orderItems[i] = storage.orderItems[i]
    /\ \A i \in 1..Len(storage.users) : storage'.users[i] = storage.users[i]

(* C23  updateOrderStatus changes the status field of the addressed order  *)
(* and nothing else; no step removes or changes an order (but for its      *)
(* status), an order item or a user, and their numbers never go down.      *)
C23_OrdersImmutableButStatus ==
    /\ [](StatusUpdateTouchesStatusOnly /\ MenuCallsKeepOrders)
    /\ [][OrdersUsersKept]_vars

\* Two orders and a registered user are stored, and an admin has set the
\* status of one order, which is otherwise as it was created.
C23_Witness ==
    /\ Len(storage.users) > 1
    /\ \E order, other \in StoredOrders :
           /\ order.id \in adminPatched
           /\ other.id \notin adminPatched
           /\ StatusOf(order) # StatusOf(placed[order.id].order)
           /\ WithoutStatus(order) = WithoutStatus(placed[order.id].order)

\* The partial menu items updateMenuItem is tried with: no field, one field,
\* several fields, and two values for the same field.
Partials ==
    {<<>>, [price |-> 175], [price |-> 200], [name |-> "Chai"],
     [name |-> "Chai", category |-> "food"], [name |-> "Mate", price |-> 200]}

\* updateMenuItem(id, p) on the item at place i of the listing: the fields of p
\* are overwritten, the other fields and the id kept, the place kept, and
\* nothing else in the store changed.
UpdateMerges(i, p) ==
    LET item == storage.menuItems[i].v
        out  == updateMenuItem(storage, item.id, p)
    IN  /\ out.ret # None
        /\ DOMAIN out.ret[1] = DOMAIN item
        /\ \A f \in DOMAIN p : out.ret[1][f] = p[f]
        /\ \A f \in DOMAIN item \ DOMAIN p : out.ret[1][f] = item[f]
        /\ out.ret[1].id = item.id
        /\ out.store = [storage EXCEPT !.menuItems[i].v = out.ret[1]]
        /\ getAllMenuItems(out.store)[i] = out.ret[1]

\* The item after updateMenuItem(id, p) and then updateMenuItem(id, q).
UpdatedTwice(id, p, q) ==
    getMenuItem(updateMenuItem(updateMenuItem(storage, id, p).store, id, q).store, id)[1]

(* C24  updateMenuItem(id, partial) on a stored item overwrites the fields *)
(* of partial and no other, keeps the id and the item's place in the       *)
(* listing, and changes nothing else; two updates of an item with disjoint *)
(* fields end in the same item in either order, and for a field both set   *)
(* the later update's value stands.                                        *)
C24_UpdateMenuItemMerges ==
    \A i \in 1..Len(storage.menuItems) : \A p \in Partials :
        /\ UpdateMerges(i, p)
        /\ \A q \in Partials :
               LET id == storage.menuItems[i].v.id
               IN  /\ DOMAIN p \cap DOMAIN q = {} =>
                          UpdatedTwice(id, p, q) = UpdatedTwice(id, q, p)
                   /\ \A f \in DOMAIN q : UpdatedTwice(id, p, q)[f] = q[f]

\* An item made after the seed has been given a new price by one update and a
\* new name by another, and stands where it stood, after an earlier item was
\* deleted.
C24_Witness ==
    \E i \in 1..Len(storage.menuItems) :
        /\ storage.menuItems[i].v.id > Len(SeedMenuItems)
        /\ storage.menuItems[i].v.price = 175
        /\ storage.menuItems[i].v.name = "Chai"
        /\ i < Len(storage.menuItems)
        /\ DOMAIN deletedMenu # {}

\* Ids under which the store holds no menu item, and no order: ids not handed
\* out yet, 0, and the ids of deleted menu items.
AbsentMenuIds ==
    {id \in 0..(storage.menuItemIdCounter + 1) : ~MapHas(storage.menuItems, id)}

AbsentOrderIds ==
    {id \in 0..(storage.orderIdCounter + 1) : ~MapHas(storage.orders, id)}

\* A call that found nothing: the store as it was, and the given return value.
FoundNothing(out, ret) == out.store = storage /\ out.ret = ret

\* A request answered 404 that left the store as it was.
Answered404(out) == out.res.status = 404 /\ out.store = storage

(* C25  On an id the store holds nothing under, updateMenuItem,            *)
(* updateOrderStatus, getMenuItem and getOrderWithItems return undefined   *)
(* and deleteMenuItem false, the store is left as it was, and the router   *)
(* answers 404 (PUT, DELETE and GET /api/menu/:id, GET /api/orders/:id,    *)
(* PATCH /api/orders/:id/status, for callers the middleware lets through   *)
(* and bodies that are in order).                                          *)
C25_NotFoundIsAbsence ==
    /\ \A id \in AbsentMenuIds :
           /\ getMenuItem(storage, id) = None
           /\ FoundNothing(deleteMenuItem(storage, id), FALSE)
           /\ \A p \in Partials : FoundNothing(updateMenuItem(storage, id, p), None)
           /\ Answered404(GetMenuItemById(storage, ToChars(id)))
           /\ \A admin \in Admins :
                  /\ Answered404(PutMenu(storage, Some(admin), ToChars(id),
                                         [price |-> Num(175)]))
                  /\ Answered404(DeleteMenu(storage, Some(admin), ToChars(id)))
    /\ \A id \in AbsentOrderIds :
           /\ getOrderWithItems(storage, id) = None
           /\ \A status \in ValidStatuses :
                  FoundNothing(updateOrderStatus(storage, id, status), None)
           /\ \A user \in StoredUsers :
                  Answered404(GetOrderById(storage, Some(user), ToChars(id)))
           /\ \A admin \in Admins : \A status \in ValidStatuses :
                  Answered404(PatchOrderStatus(storage, Some(admin), ToChars(id),
                                               StatusBody(status)))

\* A menu item has been deleted while a later one is stored, orders are
\* stored, and a user beside the admin is there to ask.
C25_Witness ==
    /\ \E id \in DOMAIN deletedMenu :
           /\ id \in AbsentMenuIds
           /\ \E item \in StoredMenuItems : item.id > id
    /\ Len(storage.orders) > 0
    /\ NonAdmins # {}

\* The categories asked for: "all", the seeded ones, one in another case, and
\* one no item has.
CategoriesAsked == {"all", "food", "juice", "beverage", "Beverage", "dessert"}

\* The ids of the stored menu items in the order of their creation, all of
\* them or those whose item has the given category.
StoredIdsInOrder ==
    SelectSeq(issued.menuItems, LAMBDA id : getMenuItem(storage, id) # None)

StoredIdsOfCategory(category) ==
    SelectSeq(StoredIdsInOrder, LAMBDA id : getMenuItem(storage, id)[1].category = category)

\* The items under the given ids, in that order.
ItemsUnder(ids) == [n \in 1..Len(ids) |-> getMenuItem(storage, ids[n])[1]]

(* C26  getMenuItemsByCategory("all") is getAllMenuItems(), for another    *)
(* category it is the stored items of exactly that category, and both are  *)
(* in the order in which the items now stored were created; GET /api/menu  *)
(* answers with the same lists.                                            *)
C26_MenuListing ==
    /\ getAllMenuItems(storage) = ItemsUnder(StoredIdsInOrder)
    /\ \A category \in CategoriesAsked :
           /\ getMenuItemsByCategory(storage, category) =
                  IF category = "all"
                  THEN getAllMenuItems(storage)
                  ELSE ItemsUnder(StoredIdsOfCategory(category))
           /\ GetMenu(storage, Some(category)).res.body =
                  getMenuItemsByCategory(storage, category)
    /\ GetMenu(storage, None).res.body = getAllMenuItems(storage)

\* After a delete and a later create, two items of one category are stored
\* with an item of another category between them, and an item has the category
\* Beverage, which the list of beverage leaves out.
C26_Witness ==
    /\ \E d \in DOMAIN deletedMenu : deletedMenu[d] < storage.menuItemIdCounter
    /\ \E i, j, k \in 1..Len(storage.menuItems) :
           /\ i < j /\ j < k
           /\ storage.menuItems[i].v.category = storage.menuItems[k].v.category
           /\ storage.menuItems[j].v.category = "Beverage"
           /\ storage.menuItems[i].v.category = "beverage"
           /\ Len(getMenuItemsByCategory(storage, "beverage")) = 2

\* Requests with a cart that fail validation: orderDetails missing, short of
\* fields or with a field of the wrong type, and carts in which one line, the
\* first or the last, fails the order item schema.
InvalidOrderBodies ==
    {[cartItems |-> Arr(<<TeaLine>>)],
     [orderDetails |-> [customerName |-> Str("A")], cartItems |-> Arr(<<TeaLine>>)],
     [orderDetails |-> Spread(ScenarioDetails, [total |-> Str("3.21")]),
      cartItems |-> Arr(<<TeaLine>>)],
     [orderDetails |-> ScenarioDetails, cartItems |-> Arr(<<TeaLine, BadLine>>)],
     [orderDetails |-> ScenarioDetails, cartItems |-> Arr(<<BadLine, TeaLine>>)],
     [orderDetails |-> ScenarioDetails, cartItems |-> Arr(<<LatteLine, TeaLine, BadLine>>)]}

\* No order and no order item was stored and no counter moved.
NothingStored(out) ==
    /\ out.store.orders = storage.orders
    /\ out.store.orderItems = storage.orderItems
    /\ out.store.orderIdCounter = storage.orderIdCounter
    /\ out.store.orderItemIdCounter = storage.orderItemIdCounter
    /\ out.store = storage

(* C27  A POST /api/orders that fails validation, its orderDetails         *)
(* malformed or one of its cart items (the last, say) failing the order    *)
(* item schema, is answered 400 and stores no order and no order item and  *)
(* moves neither id counter.  (A request without a session does not get to *)
(* the validation: it is answered 401, and stores nothing either.)         *)
C27_AllOrNothing ==
    \A caller \in Callers : \A body \in InvalidOrderBodies :
        LET out == PostOrders(storage, caller, body, clock)
        IN  /\ out.res.status = IF IsAuthenticated(caller) THEN 400 ELSE 401
            /\ IsAuthenticated(caller) => out.res.body = Message("Invalid order data")
            /\ NothingStored(out)

\* Orders and order items are stored and a registered user's request whose
\* last cart line fails is refused.
C27_Witness ==
    \E user \in NonAdmins :
        /\ storage.orderIdCounter > 1
        /\ storage.orderItemIdCounter > 2
        /\ PostOrders(storage, Some(user),
                      [orderDetails |-> ScenarioDetails,
                       cartItems |-> Arr(<<LatteLine, TeaLine, BadLine>>)],
                      clock).res.status = 400

-----------------------------------------------------------------------------
(* C28  Cart well-formedness: from an empty cart, after any sequence of    *)
(* addToCart, removeFromCart, updateQuantity (any integer quantity) and    *)
(* clearCart, no two cart lines have the same item id and every line has   *)
(* quantity >= 1; addToCart of an item already in the cart raises that     *)
(* line's quantity by exactly 1 and adds no line, and updateQuantity with  *)
(* quantity <= 0 removes the line.                                         *)

WellFormedCart(items) ==
    /\ \A i, j \in 1..Len(items) : items[i].id = items[j].id => i = j
    /\ \A i \in 1..Len(items) : items[i].quantity >= 1

\* items and next have the same lines but for the one at i, which differs in
\* its quantity only.
SameButQuantityAt(items, next, i) ==
    /\ Len(next) = Len(items)
    /\ \A j \in 1..Len(items) :
          IF j = i
          THEN next[j] = Spread(items[j], [quantity |-> next[j].quantity])
          ELSE next[j] = items[j]

AddRaisesByOne(items) ==
    \A item \in MenuItemsShown :
        InCart(items, item.id) =>
            LET i == existingItemIndex(items, item.id)
                next == addToCart(items, item)
            IN  /\ SameButQuantityAt(items, next, i)
                /\ next[i].quantity = items[i].quantity + 1

NonPositiveRemoves(items) ==
    \A itemId \in ItemIdsShown, quantity \in -1..0 :
        LET next == updateQuantity(items, itemId, quantity)
        IN  /\ ~InCart(next, itemId)
            /\ next = SelectSeq(items, LAMBDA item : item.id # itemId)

C28_CartWellFormed ==
    /\ WellFormedCart(cartItems)
    /\ AddRaisesByOne(cartItems)
    /\ NonPositiveRemoves(cartItems)

\* A cart of two lines, one of them added twice, after whose removal by
\* updateQuantity(id, 0) the other line is left.
C28_Witness ==
    /\ Len(cartItems) = 2
    /\ cartItems[1].quantity = 2
    /\ Len(updateQuantity(cartItems, cartItems[1].id, 0)) = 1

-----------------------------------------------------------------------------
(* C29  The cart is cleared exactly when an order placement succeeds:      *)
(* after a successful POST /api/orders response the cart becomes empty and *)
(* the confirmation shows the returned order id; after a failed placement  *)
(* (error response, lost request, or the empty-cart rejection) the cart    *)
(* lines are unchanged; and no order request is sent while the cart is     *)
(* empty.  The cart that becomes empty is the one React renders next.      *)

Succeeds == orderMutation.status = "pending" /\ orderMutation'.status = "success"

Fails == orderMutation.status = "pending" /\ orderMutation'.status = "error"

\* clearCart() is called in this step.
Clears ==
    /\ Len(updates') = Len(updates) + 1
    /\ updates'[Len(updates')] = [op |-> "clearCart"]

\* A request leaves in this step.
Sends == IsRequest(wire') /\ wire' # wire

SuccessClearsAndConfirms ==
    Succeeds =>
        /\ IsResponse(wire)
        /\ wire[1].response.status = 201
        /\ Clears
        /\ RenderedCart' = <<>>
        /\ orderPage'.orderId = Some(wire[1].response.body.id)
        /\ orderPage'.isConfirmationVisible

FailureKeepsCart ==
    Fails => /\ cartItems' = cartItems
             /\ updates' = updates
             /\ orderPage' = orderPage

ErrorResponseFails ==
    (IsResponse(wire) /\ wire[1].response.status # 201 /\ wire' = <<>>) => Fails

ClearedOnlyOnSuccess == Clears => Succeeds

SentOnlyWithLines ==
    Sends => /\ Len(cartItems) > 0
             /\ wire'[1].request.cartItems = JSONstringify(cartItems)

EmptyCartRejected ==
    \A data \in OrderForms :
        Len(cartItems) = 0 =>
            onSubmit(cartItems, data) = None /\ mutationFn(cartItems, data) = None

NoEmptyRequest == IsRequest(wire) => Len(wire[1].request.cartItems.v) > 0

-----------------------------------------------------------------------------
(* C30  Cart persistence round-trips: when CartProvider mounts with a      *)
(* saved cart in localStorage, the load effect and the save effect (which  *)
(* first runs with the initial empty cart) settle in a state where         *)
(* cartItems equals the previously saved cart and localStorage holds that  *)
(* same cart; thereafter, after every cart operation, localStorage         *)
(* eventually equals cartItems (as long as the page stays open).           *)

\* The provider is mounted on a saved cart and no cart function was called yet.
MountedOnSaved == mounted /\ sinceMount.saved # None /\ ~sinceMount.operated

Settled == mounted /\ effects = {} /\ updates = <<>>

SettledOnSaved ==
    /\ MountedOnSaved
    /\ Settled
    /\ cartItems = JSONparse(sinceMount.saved[1])
    /\ localStorage = sinceMount.saved

\* Between the effects of the mount and the render of what the load effect
\* read, the save effect has written the empty cart.
SavedEmptyFirst ==
    (MountedOnSaved /\ effects = {} /\ updates # <<>>) =>
        /\ cartItems = <<>>
        /\ localStorage = Some(JSONstringify(<<>>))
        /\ updates = <<[op |-> "load", items |-> JSONparse(sinceMount.saved[1])]>>

Synced == localStorage = Some(JSONstringify(cartItems))

C30_CartRoundTrips ==
    /\ []((MountedOnSaved /\ Settled) => SettledOnSaved)
    /\ []SavedEmptyFirst
    /\ [](Settled => Synced)
    /\ MountedOnSaved ~> (SettledOnSaved \/ ~MountedOnSaved)
    /\ mounted ~> ((Settled /\ Synced) \/ ~mounted)

\* A saved cart of two lines, one of quantity 2, is back in cartItems and in
\* localStorage after the mount has settled.
C30_Witness ==
    /\ SettledOnSaved
    /\ Len(cartItems) = 2
    /\ \E i \in 1..2 : cartItems[i].quantity = 2

====
